---- MODULE Spec2Model ----
(***************************************************************************)
(* MMM-ShareToMirror: the node helper (HTTP API, rate limiter, playback    *)
(* relay) as a state machine.  Two versions of the helper are in the       *)
(* repository: src/node_helper.js (sweep of the rate map on every request, *)
(* no /api/overlay route) and src/unnamed/part_001 (sweep at most every    *)
(* 30 s, /api/overlay route).  The variable "version" selects which one a  *)
(* behaviour runs.                                                         *)
(***************************************************************************)
EXTENDS Integers, Sequences, FiniteSets, TLC

VARIABLES version, now, requests, lastCleanup, state, config, server,
          sent, req, res, solo, nosweep, seen, prev, call, mm, down, up

vars == <<version, now, requests, lastCleanup, state, config, server,
          sent, req, res, solo, nosweep, seen, prev, call, mm, down, up>>

(***************************************************************************)
(* JavaScript values.  Strings are sequences of one-character strings so   *)
(* that the regular expressions of parseYouTubeId can be evaluated.        *)
(***************************************************************************)
Null == [t |-> "null"]

Undef == [t |-> "undefined"]

Str(chars) == [t |-> "string", s |-> chars]

Num(n) == [t |-> "number", n |-> n]

Bool(b) == [t |-> "boolean", b |-> b]

Obj(fields) == [t |-> "object", o |-> fields]

\* JavaScript truthiness: undefined, null, "", 0 and false are falsy.
Truthy(v) ==
  CASE v.t = "undefined" -> FALSE
    [] v.t = "null" -> FALSE
    [] v.t = "string" -> Len(v.s) > 0
    [] v.t = "number" -> v.n # 0
    [] v.t = "boolean" -> v.b
    [] OTHER -> TRUE

\* a || b
Or(a, b) == IF Truthy(a) THEN a ELSE b

\* Boolean(v)
ToBoolean(v) == Bool(Truthy(v))

(* Character classes of the patterns of parseYouTubeId. *)
UpperChars == <<"A", "B", "C", "D", "E", "F", "G", "H", "I", "J", "K", "L", "M", "N", "O", "P", "Q", "R", "S", "T", "U", "V", "W", "X", "Y", "Z">>

LowerChars == <<"a", "b", "c", "d", "e", "f", "g", "h", "i", "j", "k", "l", "m", "n", "o", "p", "q", "r", "s", "t", "u", "v", "w", "x", "y", "z">>

DigitChars == <<"0", "1", "2", "3", "4", "5", "6", "7", "8", "9">>

Range(f) == {f[i] : i \in DOMAIN f}

UpperSet == Range(UpperChars)

\* [a-zA-Z0-9_-]
IdChars == UpperSet \cup Range(LowerChars) \cup Range(DigitChars) \cup {"_", "-"}

\* String.prototype.trim removes these from both ends.
WhiteSpace == {" ", "\t", "\n"}

\* The i flag: letters compare by their lower-case form.
ToLower(c) ==
  IF c \in UpperSet
    THEN LowerChars[CHOOSE i \in DOMAIN UpperChars : UpperChars[i] = c]
    ELSE c

(* The literal prefixes of the five URL patterns, in the order of the code. *)
MarkWatch == <<"y", "o", "u", "t", "u", "b", "e", ".", "c", "o", "m", "/", "w", "a", "t", "c", "h", "?", "v", "=">>

MarkEmbed == <<"y", "o", "u", "t", "u", "b", "e", ".", "c", "o", "m", "/", "e", "m", "b", "e", "d", "/">>

MarkV == <<"y", "o", "u", "t", "u", "b", "e", ".", "c", "o", "m", "/", "v", "/">>

MarkShorts == <<"y", "o", "u", "t", "u", "b", "e", ".", "c", "o", "m", "/", "s", "h", "o", "r", "t", "s", "/">>

MarkShort == <<"y", "o", "u", "t", "u", ".", "b", "e", "/">>

\* Length of a video ID: the {11} of every pattern.
IdLen == 11

\* Mutant of Trim: the input is matched untrimmed.
Trim_None(s) == s

\* input.trim()
Trim(s) ==
  LET keep == {i \in DOMAIN s : s[i] \notin WhiteSpace}
  IN  IF keep = {} THEN <<>>
      ELSE LET lo == CHOOSE i \in keep : \A j \in keep : i <= j
               hi == CHOOSE i \in keep : \A j \in keep : j <= i
           IN  SubSeq(s, lo, hi)

\* The pattern  marker([a-zA-Z0-9_-]{11})  with flag i matches at position p.
MatchAt(s, p, marker) ==
  /\ p + Len(marker) + IdLen - 1 <= Len(s)
  /\ \A k \in 1..Len(marker) : ToLower(s[p + k - 1]) = marker[k]
  /\ \A k \in 1..IdLen : s[p + Len(marker) + k - 1] \in IdChars

\* s.match(pattern)[1] for an unanchored URL pattern: the capture of the
\* leftmost match, or <<>> when the pattern does not match.
MatchMarker(s, marker) ==
  LET ps == {p \in 1..Len(s) : MatchAt(s, p, marker)}
  IN  IF ps = {} THEN <<>>
      ELSE LET p == CHOOSE q \in ps : \A r \in ps : q <= r
           IN  SubSeq(s, p + Len(marker), p + Len(marker) + IdLen - 1)

\* Mutant of MatchBare: the pattern has lost its $.
MatchBare_NoEnd(s) ==
  IF Len(s) >= IdLen /\ \A k \in 1..IdLen : s[k] \in IdChars
    THEN SubSeq(s, 1, IdLen) ELSE <<>>

\* s.match(/^([a-zA-Z0-9_-]{11})$/i)[1]
MatchBare(s) ==
  IF Len(s) = IdLen /\ \A k \in 1..Len(s) : s[k] \in IdChars THEN s ELSE <<>>

\* The captures of the six patterns, in the order the loop tries them.
Captures(s) ==
  <<MatchMarker(s, MarkWatch), MatchMarker(s, MarkEmbed), MatchMarker(s, MarkV),
    MatchMarker(s, MarkShorts), MatchMarker(s, MarkShort), MatchBare(s)>>

\* match && match[1] && videoId.length === 11 && /^[a-zA-Z0-9_-]+$/.test(videoId)
ValidCapture(m) ==
  /\ Len(m) > 0
  /\ Len(m) = IdLen
  /\ \A k \in 1..Len(m) : m[k] \in IdChars

parseYouTubeId(input) ==
  IF ~Truthy(input) \/ input.t # "string" THEN Null
  ELSE LET caps == Captures(Trim(input.s))
           ok == {i \in DOMAIN caps : ValidCapture(caps[i])}
       IN  IF ok = {} THEN Null
           ELSE Str(caps[CHOOSE i \in ok : \A j \in ok : i <= j])

(***************************************************************************)
(* Inputs: the strings the requests of the model carry.                    *)
(***************************************************************************)
Https == <<"h", "t", "t", "p", "s", ":", "/", "/">>

Www == <<"w", "w", "w", ".">>

IdA == <<"d", "Q", "w", "4", "w", "9", "W", "g", "X", "c", "Q">>

IdB == <<"9", "b", "Z", "k", "p", "7", "q", "_", "-", "f", "0">>

ShortToken == <<"s", "h", "o", "r", "t">>

NotAUrl == <<"n", "o", "t", " ", "a", " ", "u", "r", "l">>

En == <<"e", "n">>

Fr == <<"f", "r">>

Auto == <<"a", "u", "t", "o">>

P1080 == <<"1", "0", "8", "0", "p">>

P720 == <<"7", "2", "0", "p">>

Api == <<"a", "p", "i">>

Ended == <<"e", "n", "d", "e", "d">>

Escape == <<"e", "s", "c", "a", "p", "e">>

UrlWatchA == Https \o Www \o MarkWatch \o IdA

UrlTooShort == Https \o MarkWatch \o ShortToken

PaddedIdB == <<" ">> \o IdB \o <<"\n">>

Pause == <<"p", "a", "u", "s", "e">>

Resume == <<"r", "e", "s", "u", "m", "e">>

Rewind == <<"r", "e", "w", "i", "n", "d">>

Forward == <<"f", "o", "r", "w", "a", "r", "d">>

Toggle == <<"t", "o", "g", "g", "l", "e">>

Fullscreen == <<"f", "u", "l", "l", "s", "c", "r", "e", "e", "n">>

Jump == <<"j", "u", "m", "p">>

(***************************************************************************)
(* Bounds of the model.                                                    *)
(***************************************************************************)
\* createRateLimit(windowMs, max): the window length in ms and the cap.
windowMs == 1000

max == 2

\* Date.now() when the helper starts.
StartTime == 100000

\* The sweep interval of the later version: now - lastCleanup > 30_000.
CleanupMs == 30000

\* The helper of src/node_helper.js and the one of src/unnamed/part_001.
Versions == {"1.6.0", "1.7.0"}

Clients == {"ipA", "ipB"}

\* The instants (ms after StartTime) the clock of the model can show.
FineOffsets == {0, 1, windowMs, windowMs + 1, CleanupMs + 1}

CoarseOffsets == {0, windowMs + 1}

(***************************************************************************)
(* createRateLimit: the limiter is the closure state (requests,            *)
(* lastCleanup) and the middleware function.                               *)
(***************************************************************************)
\* now - data.resetTime > windowMs
Expired(rec, t) == t - rec.resetTime > windowMs

\* Mutant of Sweep: the loop forgets windowMs and removes every entry that
\* is older than the current instant.
Sweep_Young(reqs, t) ==
  [ip \in {i \in DOMAIN reqs : ~(t - reqs[i].resetTime > 0)} |-> reqs[ip]]

\* The "clean old entries" loop.
Sweep(reqs, t) ==
  [ip \in {i \in DOMAIN reqs : ~Expired(reqs[i], t)} |-> reqs[ip]]

\* When the loop runs: on every request (node_helper.js), when more than
\* 30 s have passed since the last sweep (part_001); "never" is the
\* limiter with the loop removed, kept as a reference.
Cleanup(lim, t, mode) ==
  CASE mode = "1.6.0" -> [lim EXCEPT !.requests = Sweep(lim.requests, t)]
    [] mode = "1.7.0" ->
         IF t - lim.lastCleanup > CleanupMs
           THEN [requests |-> Sweep(lim.requests, t), lastCleanup |-> t]
           ELSE lim
    [] OTHER -> lim

\* Whether this call runs the loop.
SweepRuns(lim, t, mode) ==
  \/ mode = "1.6.0"
  \/ mode = "1.7.0" /\ t - lim.lastCleanup > CleanupMs

\* requests.get(clientId), replaced by a fresh record when absent or expired.
Lookup(reqs, clientId, t) ==
  IF clientId \notin DOMAIN reqs \/ Expired(reqs[clientId], t)
    THEN [ip \in DOMAIN reqs \cup {clientId} |->
            IF ip = clientId THEN [count |-> 0, resetTime |-> t] ELSE reqs[ip]]
    ELSE reqs

\* Math.ceil(x / 1000)
CeilSeconds(x) == -((-x) \div 1000)

\* Mutant of RetryAfter: Math.floor in place of Math.ceil.
RetryAfter_Floor(rec, t) == (windowMs - (t - rec.resetTime)) \div 1000

\* retryAfter: Math.ceil((windowMs - (now - resetTime)) / 1000)
RetryAfter(rec, t) == CeilSeconds(windowMs - (t - rec.resetTime))

\* Mutant of OverLimit: > in place of >=.
OverLimit_Late(rec) == rec.count > max

\* rec.count >= max
OverLimit(rec) == rec.count >= max

\* Mutant of Admit: an allowed request moves the start of the window.
Admit_Sliding(lim, clientId, t, mode) ==
  LET swept == Cleanup(lim, t, mode)
      reqs == Lookup(swept.requests, clientId, t)
      rec == reqs[clientId]
  IN  IF OverLimit(rec)
        THEN [lim |-> [swept EXCEPT !.requests = reqs],
              allow |-> FALSE, retryAfter |-> RetryAfter(rec, t)]
        ELSE [lim |-> [swept EXCEPT
                         !.requests = [reqs EXCEPT ![clientId] =
                                         [count |-> @.count + 1, resetTime |-> t]]],
              allow |-> TRUE, retryAfter |-> 0]

\* Mutant of ClientId: every request is counted under one key.
ClientId_Shared(ip) == "ipA"

\* const clientId = req.ip || req.connection.remoteAddress
ClientId(ip) == ip

\* One call of the middleware: the new closure state and the decision.
Admit(lim, clientId, t, mode) ==
  LET swept == Cleanup(lim, t, mode)
      reqs == Lookup(swept.requests, clientId, t)
      rec == reqs[clientId]
  IN  IF OverLimit(rec)
        THEN [lim |-> [swept EXCEPT !.requests = reqs],
              allow |-> FALSE, retryAfter |-> RetryAfter(rec, t)]
        ELSE [lim |-> [swept EXCEPT
                         !.requests = [reqs EXCEPT ![clientId].count = @ + 1]],
              allow |-> TRUE, retryAfter |-> 0]

\* new Map()
EmptyMap == [ip \in {} |-> [count |-> 0, resetTime |-> 0]]

\* The closure state createRateLimit() starts with.
NewLimiter == [requests |-> EmptyMap, lastCleanup |-> 0]

(***************************************************************************)
(* The playback relay: PlaybackState and the route handlers.  A handler    *)
(* yields the new PlaybackState, the socket notifications it sends to the  *)
(* display client, and the HTTP status and body of its response.           *)
(***************************************************************************)
DefaultCaption == [enabled |-> Bool(FALSE), lang |-> Str(En)]

DefaultQuality ==
  [target |-> Str(Auto), floor |-> Null, ceiling |-> Null, lock |-> Bool(FALSE)]

\* this.state as start() sets it.
InitialState ==
  [playing |-> FALSE, lastUrl |-> Null, lastVideoId |-> Null,
   caption |-> DefaultCaption, quality |-> DefaultQuality]

Notification(name, payload) == [n |-> name, payload |-> payload]

Outcome(st, msgs, status, body) ==
  [state |-> st, sent |-> msgs, status |-> status, body |-> body]

\* Mutant of playVideo: the video ID is not recorded.
playVideo_NoId(st, videoId, url, ver) ==
  [state |-> [st EXCEPT !.playing = TRUE, !.lastUrl = url],
   sent |-> <<Notification("STM_PLAY_EMBED", [videoId |-> videoId, url |-> url])>>]

\* Mutant of playVideo: the URL of the first play is kept.
playVideo_KeepsUrl(st, videoId, url, ver) ==
  [state |-> [st EXCEPT !.playing = TRUE,
                        !.lastUrl = Or(st.lastUrl, url),
                        !.lastVideoId = videoId],
   sent |-> <<Notification("STM_PLAY_EMBED", [videoId |-> videoId, url |-> url])>>]

\* playVideo(videoId, url); part_001 stores url || null.
playVideo(st, videoId, url, ver) ==
  [state |-> [st EXCEPT !.playing = TRUE,
                        !.lastUrl = IF ver = "1.7.0" THEN Or(url, Null) ELSE url,
                        !.lastVideoId = videoId],
   sent |-> <<Notification("STM_PLAY_EMBED", [videoId |-> videoId, url |-> url])>>]

\* Mutant of handlePlay: the check of the parsed ID is missing.
handlePlay_NoCheck(st, body, ver) ==
  LET videoId == parseYouTubeId(body.url)
      p == playVideo(st, videoId, body.url, ver)
  IN  Outcome(p.state, p.sent, 200,
              [ok |-> TRUE, mode |-> "embedded", videoId |-> videoId])

\* POST /api/play
handlePlay(st, body, ver) ==
  LET videoId == parseYouTubeId(body.url)
  IN  IF ~Truthy(videoId)
        THEN Outcome(st, <<>>, 400, [ok |-> FALSE, error |-> "Invalid YouTube URL"])
        ELSE LET p == playVideo(st, videoId, body.url, ver)
             IN  Outcome(p.state, p.sent, 200,
                         [ok |-> TRUE, mode |-> "embedded", videoId |-> videoId])

\* body.url || body.text || body.title || query.url || query.text || query.title
FirstTruthy(fields) ==
  Or(fields[1], Or(fields[2], Or(fields[3], Or(fields[4], Or(fields[5], fields[6])))))

\* Mutant of handleShareTarget: the fields are tried in turn until one of
\* them names a video.
handleShareTarget_AnyField(st, body, ver) ==
  LET named == {i \in 1..6 : Truthy(parseYouTubeId(body.fields[i]))}
      url == IF named = {} THEN FirstTruthy(body.fields)
             ELSE body.fields[CHOOSE i \in named : \A j \in named : i <= j]
      videoId == parseYouTubeId(url)
  IN  IF Truthy(videoId)
        THEN LET p == playVideo(st, videoId, url, ver)
             IN  Outcome(p.state, p.sent, 200, [page |-> "done.html"])
        ELSE Outcome(st, <<>>, 200, [page |-> "done.html"])

\* POST and GET /share-target
handleShareTarget(st, body, ver) ==
  LET url == FirstTruthy(body.fields)
      videoId == parseYouTubeId(url)
  IN  IF Truthy(videoId)
        THEN LET p == playVideo(st, videoId, url, ver)
             IN  Outcome(p.state, p.sent, 200, [page |-> "done.html"])
        ELSE Outcome(st, <<>>, 200, [page |-> "done.html"])

\* Mutant of handleStop: the whole state is reset.
handleStop_Reset(st) ==
  Outcome([st EXCEPT !.playing = FALSE, !.lastUrl = Null, !.lastVideoId = Null],
          <<Notification("STM_STOP_EMBED", [reason |-> Str(Api)])>>,
          200, [ok |-> TRUE, message |-> "Playback stopped"])

\* POST /api/stop
handleStop(st) ==
  Outcome([st EXCEPT !.playing = FALSE],
          <<Notification("STM_STOP_EMBED", [reason |-> Str(Api)])>>,
          200, [ok |-> TRUE, message |-> "Playback stopped"])

ValidActions == {Pause, Resume, Rewind, Forward}

\* Number(seconds) for the values the model supplies: NaN is falsy, so it
\* is given as 0 to the following || 10.
ToNumber(v) == IF v.t = "number" THEN v ELSE Num(0)

\* seconds <= 0, false for undefined (NaN comparison).
NotPositive(v) == v.t = "number" /\ v.n <= 0

\* Mutant of handleControl: every accepted command clears playing.
handleControl_Stops(st, body, ver) ==
  IF Truthy(body.action) /\ body.action.t = "string" /\ body.action.s = Pause
    THEN Outcome([st EXCEPT !.playing = FALSE],
                 <<Notification("STM_VIDEO_CONTROL",
                                [action |-> body.action, seconds |-> body.seconds])>>,
                 200, [ok |-> TRUE, action |-> body.action, seconds |-> Null])
    ELSE Outcome(st, <<>>, 400, [ok |-> FALSE, error |-> "Invalid action"])

\* POST /api/control
handleControl(st, body, ver) ==
  LET action == body.action
      seeking == action.t = "string" /\ action.s \in {Rewind, Forward}
      seconds == IF ver = "1.7.0" /\ seeking
                   THEN Or(ToNumber(body.seconds), Num(10))
                   ELSE body.seconds
  IN  IF ~Truthy(action)
        THEN Outcome(st, <<>>, 400, [ok |-> FALSE, error |-> "Action is required"])
      ELSE IF action.t # "string" \/ action.s \notin ValidActions
        THEN Outcome(st, <<>>, 400, [ok |-> FALSE, error |-> "Invalid action"])
      ELSE IF seeking /\ (IF ver = "1.7.0" THEN NotPositive(seconds)
                          ELSE ~Truthy(seconds) \/ NotPositive(seconds))
        THEN Outcome(st, <<>>, 400,
                     [ok |-> FALSE,
                      error |-> IF ver = "1.7.0" THEN "Seconds must be > 0"
                                ELSE "Valid seconds parameter required for rewind/forward"])
      ELSE Outcome(st,
                   <<Notification("STM_VIDEO_CONTROL",
                                  [action |-> action, seconds |-> seconds])>>,
                   200,
                   [ok |-> TRUE, action |-> action,
                    seconds |-> IF ver = "1.7.0"
                                  THEN (IF seconds.t = "undefined" THEN Null ELSE seconds)
                                  ELSE Or(seconds, Null)])

\* body.caption && typeof body.caption === "object"
IsPatch(v) == Truthy(v) /\ v.t = "object"

\* updates.caption
CaptionUpdate(c) ==
  [enabled |-> ToBoolean(c.o.enabled), lang |-> Or(c.o.lang, Str(En))]

\* updates.quality
QualityUpdate(q) ==
  [target |-> Or(q.o.target, Str(Auto)), floor |-> Or(q.o.floor, Null),
   ceiling |-> Or(q.o.ceiling, Null), lock |-> ToBoolean(q.o.lock)]

\* Object.assign(target, source) for records: the fields of source win.
Assign(target, source) ==
  [f \in DOMAIN target \cup DOMAIN source |->
     IF f \in DOMAIN source THEN source[f] ELSE target[f]]

\* Mutant of handleOptions: STM_OPTIONS is sent only when a value changed.
handleOptions_IfChanged(st, body) ==
  LET hasC == IsPatch(body.caption)
      hasQ == IsPatch(body.quality)
      updates == [caption |-> IF hasC THEN Obj(CaptionUpdate(body.caption)) ELSE Undef,
                  quality |-> IF hasQ THEN Obj(QualityUpdate(body.quality)) ELSE Undef]
      st1 == IF hasC THEN [st EXCEPT !.caption = Assign(@, updates.caption.o)] ELSE st
      st2 == IF hasQ THEN [st1 EXCEPT !.quality = Assign(@, updates.quality.o)] ELSE st1
  IN  Outcome(st2,
              IF st2 # st THEN <<Notification("STM_OPTIONS", updates)>> ELSE <<>>,
              200, [ok |-> TRUE, state |-> st2, updated |-> hasC \/ hasQ])

\* POST /api/options
handleOptions(st, body) ==
  LET hasC == IsPatch(body.caption)
      hasQ == IsPatch(body.quality)
      updates == [caption |-> IF hasC THEN Obj(CaptionUpdate(body.caption)) ELSE Undef,
                  quality |-> IF hasQ THEN Obj(QualityUpdate(body.quality)) ELSE Undef]
      st1 == IF hasC THEN [st EXCEPT !.caption = Assign(@, updates.caption.o)] ELSE st
      st2 == IF hasQ THEN [st1 EXCEPT !.quality = Assign(@, updates.quality.o)] ELSE st1
  IN  Outcome(st2,
              IF hasC \/ hasQ THEN <<Notification("STM_OPTIONS", updates)>> ELSE <<>>,
              200, [ok |-> TRUE, state |-> st2, updated |-> hasC \/ hasQ])

\* POST /api/overlay, a route of part_001 only; without the route express
\* answers 404.
handleOverlay(st, body, ver) ==
  IF ver = "1.7.0"
    THEN Outcome(st,
                 <<Notification("STM_OVERLAY",
                                [action |-> IF body.action.t = "undefined" THEN Str(Toggle)
                                            ELSE body.action])>>,
                 200, [ok |-> TRUE])
    ELSE Outcome(st, <<>>, 404, [ok |-> FALSE])

\* GET /api/status
handleStatus(st) == Outcome(st, <<>>, 200, [ok |-> TRUE, state |-> st])

\* GET /api/health
handleHealth(st) == Outcome(st, <<>>, 200, [ok |-> TRUE, status |-> "healthy"])

(***************************************************************************)
(* parseISO8601Duration: the duration string of the Data API in seconds.   *)
(***************************************************************************)
DigitSet == Range(DigitChars)

DigitValue(ch) == CHOOSE n \in 0..9 : DigitChars[n + 1] = ch

RECURSIVE ParseInt(_)
\* parseInt(capture) || 0: a capture that did not take part is undefined,
\* parseInt of it is NaN, and NaN || 0 is 0.
ParseInt(digits) ==
  IF digits = <<>> THEN 0
  ELSE ParseInt(SubSeq(digits, 1, Len(digits) - 1)) * 10
         + DigitValue(digits[Len(digits)])

\* The length of the run of digits of s that starts at position q.
DigitRun(s, q) ==
  LET ends == {e \in q..Len(s) + 1 : e = Len(s) + 1 \/ s[e] \notin DigitSet}
  IN  (CHOOSE e \in ends : \A f \in ends : e <= f) - q

\* (?:(\d+)H)? at position q, for the unit H, M or S: the digits are
\* captured when the unit follows them, otherwise the group matches empty.
Group(s, q, unit) ==
  LET n == DigitRun(s, q)
  IN  IF n > 0 /\ q + n <= Len(s) /\ s[q + n] = unit
        THEN [capture |-> SubSeq(s, q, q + n - 1), next |-> q + n + 1]
        ELSE [capture |-> <<>>, next |-> q]

\* duration.match(/PT(?:(\d+)H)?(?:(\d+)M)?(?:(\d+)S)?/): the pattern is
\* not anchored and every group is optional, so it matches at the first
\* "PT" of the string.  The result is <<>> when there is no match.
MatchDuration(s) ==
  LET ps == {p \in 1..Len(s) - 1 : s[p] = "P" /\ s[p + 1] = "T"}
  IN  IF ps = {} THEN <<>>
      ELSE LET p == CHOOSE q \in ps : \A r \in ps : q <= r
               h == Group(s, p + 2, "H")
               m == Group(s, h.next, "M")
               sec == Group(s, m.next, "S")
           IN  <<h.capture, m.capture, sec.capture>>

parseISO8601Duration(duration) ==
  IF ~Truthy(duration) THEN Null
  ELSE LET match == MatchDuration(duration.s)
       IN  IF match = <<>> THEN Null
           ELSE Num(ParseInt(match[1]) * 3600 + ParseInt(match[2]) * 60
                      + ParseInt(match[3]))

(***************************************************************************)
(* The metadata resolver: fetchYouTubeVideoInfo tries three sources in     *)
(* turn.  call is the resolve call POST /api/video-info has in progress:   *)
(* the method the loop awaits (idx), whether its request can still raise   *)
(* an event (open), the network requests made (network), every method      *)
(* tried with the way it ended (tried), and the record returned (result).  *)
(***************************************************************************)
Idle == [pc |-> "idle"]

\* The methods array, in the order of the loop.
Sources == <<"oembed", "api", "scrape">>

\* The ways a request can end: a 200 answer that carries a title, a 200
\* answer without one, another status code, the "error" event, the
\* "timeout" event.
Endings == {"title", "notitle", "non200", "error", "timeout"}

ImgPrefix == <<"h", "t", "t", "p", "s", ":", "/", "/", "i", "m", "g", ".", "y", "o", "u", "t", "u", "b", "e", ".", "c", "o", "m", "/", "v", "i", "/">>

ImgSuffix == <<"/", "m", "q", "d", "e", "f", "a", "u", "l", "t", ".", "j", "p", "g">>

YouTubeVideo == <<"Y", "o", "u", "T", "u", "b", "e", " ", "V", "i", "d", "e", "o">>

\* The titles the three sources answer with.
TitleOf(source) ==
  CASE source = "oembed" -> Str(<<"o", "E", "m", "b", "e", "d">>)
    [] source = "api" -> Str(<<"D", "a", "t", "a">>)
    [] OTHER -> Str(<<"P", "a", "g", "e">>)

\* `https://img.youtube.com/vi/${videoId}/mqdefault.jpg`
ThumbnailUrl(videoId) == Str(ImgPrefix \o videoId.s \o ImgSuffix)

VideoInfo(title, videoId, duration, views, likes) ==
  [title |-> title, thumbnail |-> ThumbnailUrl(videoId), duration |-> duration,
   views |-> views, likes |-> likes]

\* A settled promise.
Resolved(value) == [settled |-> TRUE, ok |-> TRUE, value |-> value]

Rejected == [settled |-> TRUE, ok |-> FALSE]

\* A promise that no handler of the request has resolved or rejected.
Unsettled == [settled |-> FALSE, ok |-> FALSE]

createFallbackVideoInfo(videoId) ==
  VideoInfo(Str(YouTubeVideo), videoId, Null, Null, Null)

\* The promise of fetchVideoInfoFromOEmbed once its request has ended:
\* resolved only by a 200 answer with a title.
fetchVideoInfoFromOEmbed(videoId, ending) ==
  IF ending = "title"
    THEN Resolved(VideoInfo(TitleOf("oembed"), videoId, Null, Null, Null))
    ELSE Rejected

\* this.config?.youtubeApiKey
ApiKey(cfg) == IF cfg = Null THEN Undef ELSE cfg.youtubeApiKey

\* The promise of fetchVideoInfoFromYouTubeAPI: the record is built from
\* items[0] whatever its snippet.title is; the status code is not looked at,
\* an answer without items is rejected.
fetchVideoInfoFromYouTubeAPI(videoId, ending) ==
  CASE ending = "title" ->
         Resolved(VideoInfo(TitleOf("api"), videoId, Num(253), Num(1000), Num(10)))
    [] ending = "notitle" ->
         Resolved(VideoInfo(Str(<<>>), videoId, Num(253), Num(1000), Num(10)))
    [] OTHER -> Rejected

\* Mutant of fetchVideoInfoFromScraping: the timeout destroys the request
\* and rejects nothing.
fetchVideoInfoFromScraping_TimeoutSilent(videoId, ending) ==
  CASE ending = "title" ->
         Resolved(VideoInfo(TitleOf("scrape"), videoId, Num(253), Num(1000), Null))
    [] ending = "notitle" ->
         Resolved(VideoInfo(Undef, videoId, Num(253), Num(1000), Null))
    [] ending = "timeout" -> Unsettled
    [] OTHER -> Rejected

\* The promise of fetchVideoInfoFromScraping: videoDetails found gives a
\* record with videoDetails.title, which may be missing.
fetchVideoInfoFromScraping(videoId, ending) ==
  CASE ending = "title" ->
         Resolved(VideoInfo(TitleOf("scrape"), videoId, Num(253), Num(1000), Null))
    [] ending = "notitle" ->
         Resolved(VideoInfo(Undef, videoId, Num(253), Num(1000), Null))
    [] OTHER -> Rejected

\* await method() for the method the loop is at.
Method(k, videoId, ending) ==
  CASE k = 1 -> fetchVideoInfoFromOEmbed(videoId, ending)
    [] k = 2 -> fetchVideoInfoFromYouTubeAPI(videoId, ending)
    [] OTHER -> fetchVideoInfoFromScraping(videoId, ending)

Tried(source, ending) == [source |-> source, ending |-> ending]

\* method k has made its request and the loop awaits it.
Await(c, k) ==
  [c EXCEPT !.pc = "pending", !.idx = k, !.open = TRUE,
            !.network = Append(@, Sources[k])]

\* return result
Return(c, value) == [c EXCEPT !.pc = "done", !.open = FALSE, !.result = value]

\* The exception leaves fetchYouTubeVideoInfo.
Throw(c) == [c EXCEPT !.pc = "thrown", !.open = FALSE]

\* Mutant of Advance: the Data API is requested without a key.
Advance_NoKeyCheck(c, cfg) ==
  IF c.idx + 1 > Len(Sources)
    THEN Return(c, createFallbackVideoInfo(c.videoId))
    ELSE Await(c, c.idx + 1)

\* The loop goes on after method c.idx has failed.  Without an API key
\* fetchVideoInfoFromYouTubeAPI throws before any request is made, which
\* the catch of the loop takes like any other failure.
Advance(c, cfg) ==
  IF c.idx + 1 > Len(Sources)
    THEN Return(c, createFallbackVideoInfo(c.videoId))
  ELSE IF Sources[c.idx + 1] = "api" /\ ~Truthy(ApiKey(cfg))
    THEN Await([c EXCEPT !.tried = Append(@, Tried("api", "nokey"))], c.idx + 2)
  ELSE Await(c, c.idx + 1)

\* Mutant of LoopStep: the try of the loop has no catch.
LoopStep_NoCatch(c, promise, cfg) ==
  IF promise.ok
    THEN IF Truthy(promise.value.title) THEN Return(c, promise.value)
         ELSE Advance(c, cfg)
    ELSE Throw(c)

\* One turn of the for loop once the awaited promise has settled:
\* if (result && result.title) return result; a rejection is caught.
LoopStep(c, promise, cfg) ==
  IF promise.ok
    THEN IF Truthy(promise.value.title) THEN Return(c, promise.value)
         ELSE Advance(c, cfg)
    ELSE Advance(c, cfg)

\* fetchYouTubeVideoInfo(videoId) up to its first await.
fetchYouTubeVideoInfo(videoId, client) ==
  Await([pc |-> "pending", videoId |-> videoId, client |-> client, idx |-> 0,
         open |-> FALSE, network |-> <<>>, tried |-> <<>>, result |-> Null], 1)

\* !videoId || !/^[a-zA-Z0-9_-]{11}$/.test(videoId), for undefined and
\* string values.
IsVideoId(v) == Truthy(v) /\ v.t = "string" /\ MatchBare(v.s) # <<>>

\* The status of a request whose answer is still to come.
Pending == 0

\* POST /api/video-info up to its await, a route of node_helper.js only.
handleVideoInfo(st, body, ver) ==
  IF ver # "1.6.0" THEN Outcome(st, <<>>, 404, [ok |-> FALSE])
  ELSE IF ~IsVideoId(body.videoId)
    THEN Outcome(st, <<>>, 400, [ok |-> FALSE, error |-> "Invalid video ID format"])
  ELSE Outcome(st, <<>>, Pending, [ok |-> TRUE])

\* The answer of POST /api/video-info once fetchYouTubeVideoInfo is over.
VideoInfoResponse(c) ==
  IF c.pc = "thrown"
    THEN [status |-> 500,
          body |-> [ok |-> FALSE, error |-> "Failed to fetch video information",
                    fallback |-> createFallbackVideoInfo(c.videoId)]]
    ELSE [status |-> 200, body |-> [ok |-> TRUE, data |-> c.result]]

\* setupRoutes: the handler express runs for the request.
Route(st, r, ver) ==
  CASE r.route = "play" -> handlePlay(st, r, ver)
    [] r.route = "share-target" -> handleShareTarget(st, r, ver)
    [] r.route = "stop" -> handleStop(st)
    [] r.route = "control" -> handleControl(st, r, ver)
    [] r.route = "options" -> handleOptions(st, r)
    [] r.route = "overlay" -> handleOverlay(st, r, ver)
    [] r.route = "status" -> handleStatus(st)
    [] r.route = "video-info" -> handleVideoInfo(st, r, ver)
    [] OTHER -> handleHealth(st)

\* Mutant of Dispatch: the routes are mounted before the limiter.
Dispatch_RoutesFirst(admission, st, r, ver) ==
  LET out == Route(st, r, ver)
  IN  IF admission.allow THEN out
      ELSE Outcome(out.state, out.sent, 429,
                   [ok |-> FALSE, error |-> "Too many requests",
                    retryAfter |-> admission.retryAfter])

\* createApp: the limiter is mounted before the body parsers and the
\* routes, so a request it answers with 429 goes no further.
Dispatch(admission, st, r, ver) ==
  IF admission.allow
    THEN Route(st, r, ver)
    ELSE Outcome(st, <<>>, 429,
                 [ok |-> FALSE, error |-> "Too many requests",
                  retryAfter |-> admission.retryAfter])

(***************************************************************************)
(* Helper life cycle: STM_START, the server and stop().                    *)
(***************************************************************************)
DefaultPort == 8570

MaxPort == 65535

HttpsOff == [enabled |-> FALSE, keyPath |-> "", certPath |-> ""]

DefaultConfig ==
  [port |-> 8570, https |-> HttpsOff,
   caption |-> DefaultCaption, quality |-> DefaultQuality,
   youtubeApiKey |-> Undef]

\* The default configuration with a YouTube Data API key.
KeyConfig == [DefaultConfig EXCEPT !.youtubeApiKey = Str(<<"k", "e", "y">>)]

\* HTTPS switched on with both paths, and an invalid port.
HttpsConfig ==
  [port |-> 0,
   https |-> [enabled |-> TRUE, keyPath |-> "key.pem", certPath |-> "cert.pem"],
   caption |-> DefaultCaption, quality |-> DefaultQuality,
   youtubeApiKey |-> Undef]

\* HTTPS switched on without a key path; captions on, 1080p.
CustomConfig ==
  [port |-> 8570,
   https |-> [enabled |-> TRUE, keyPath |-> "", certPath |-> "cert.pem"],
   caption |-> [enabled |-> Bool(TRUE), lang |-> Str(En)],
   quality |-> [target |-> Str(P1080), floor |-> Null, ceiling |-> Null,
                lock |-> Bool(FALSE)],
   youtubeApiKey |-> Undef]

\* Captions in French, a quality floor and the quality lock.
LockedConfig ==
  [DefaultConfig EXCEPT
     !.caption = [enabled |-> Bool(TRUE), lang |-> Str(Fr)],
     !.quality = [target |-> Str(Auto), floor |-> Str(P720), ceiling |-> Null,
                  lock |-> Bool(TRUE)]]

\* The module configurations the display client sends with STM_START.
Configs == {DefaultConfig, HttpsConfig, CustomConfig}

validateConfig(cfg) ==
  LET c1 == IF cfg.port < 1 \/ cfg.port > MaxPort
              THEN [cfg EXCEPT !.port = DefaultPort] ELSE cfg
  IN  IF c1.https.enabled /\ (c1.https.keyPath = "" \/ c1.https.certPath = "")
        THEN [c1 EXCEPT !.https.enabled = FALSE]
        ELSE c1

\* this.server before startServer and after stop().
NoServer == [scheme |-> "none"]

\* Mutant of createServer: a key or certificate that cannot be read leaves
\* the helper without a listener.
createServer_NoFallback(cfg, readable) ==
  IF cfg.https.enabled
    THEN IF readable THEN [scheme |-> "https", port |-> cfg.port] ELSE NoServer
    ELSE [scheme |-> "http", port |-> cfg.port]

\* The listener startServer creates on this.config.port: createHttpsServer
\* falls back to createHttpServer when the key or the certificate cannot
\* be read.
createServer(cfg, readable) ==
  [scheme |-> IF cfg.https.enabled /\ readable THEN "https" ELSE "http",
   port |-> cfg.port]

\* The state handleStart leaves: the config's caption and quality merged in.
handleStart(st, cfg) ==
  [st EXCEPT !.caption = Assign(@, cfg.caption),
             !.quality = Assign(@, cfg.quality)]

NoResponse == [status |-> 0]

NoDecision == [c \in Clients |-> "none"]

(***************************************************************************)
(* The socket between the helper and the display client.  mm is the        *)
(* display client (NoModule while it is left open: any notification may    *)
(* then arrive at the helper, and what the helper sends is not followed),  *)
(* down holds the notifications sent by the helper and not yet received,   *)
(* up those sent by the display client; each direction keeps its order.    *)
(***************************************************************************)
NoModule == [version |-> "none"]

\* The notifications in flight in one direction that the model allows.
MaxInFlight == 2

\* sendSocketNotification of the helper.
Emit == down' = IF mm = NoModule THEN down ELSE down \o sent'

\* A step of the helper that receives no notification.
HelperStep == Emit /\ UNCHANGED <<mm, up>>

\* A step of the helper that receives the notification at the head of up.
HelperTakes == Emit /\ up' = (IF mm = NoModule THEN up ELSE Tail(up)) /\ UNCHANGED mm

Constructed ==
  /\ version \in Versions
  /\ now = StartTime
  /\ requests = EmptyMap
  /\ lastCleanup = 0
  /\ state = InitialState
  /\ config = Null
  /\ server = NoServer
  /\ sent = <<>>
  /\ req = [kind |-> "init"]
  /\ res = NoResponse
  /\ solo = [c \in Clients |-> NewLimiter]
  /\ nosweep = NewLimiter
  /\ seen = [c \in Clients |-> 0]
  /\ prev = NoDecision
  /\ mm = NoModule
  /\ down = <<>>
  /\ up = <<>>

\* The helper after start(), with no call of a function in progress.
Init == Constructed /\ call = Idle

\* Date.now() moves on to a later instant of the given set of offsets.
Tick(offsets) ==
  /\ \E d \in offsets : now < StartTime + d /\ now' = StartTime + d
  /\ req' = [kind |-> "tick"]
  /\ res' = NoResponse
  /\ sent' = <<>>
  /\ HelperStep
  /\ UNCHANGED <<version, requests, lastCleanup, state, config, server,
                 solo, nosweep, seen, prev, call>>

\* Mutant of STM_START: startServer does not look at this.server.
STM_START_Again(cfg, readable) ==
  /\ config' = validateConfig(cfg)
  /\ state' = handleStart(state, cfg)
  /\ server' = createServer(config', readable)
  /\ requests' = NewLimiter.requests
  /\ lastCleanup' = NewLimiter.lastCleanup
  /\ solo' = [c \in Clients |-> NewLimiter]
  /\ nosweep' = NewLimiter
  /\ seen' = [c \in Clients |-> 0]
  /\ prev' = NoDecision
  /\ req' = [kind |-> "socket", n |-> "STM_START", cfg |-> cfg,
             readable |-> readable]
  /\ res' = NoResponse
  /\ sent' = <<>>
  /\ HelperTakes
  /\ UNCHANGED <<version, now, call>>

\* socketNotificationReceived("STM_START", cfg): handleStart and startServer.
\* startServer returns at once when a server exists; otherwise createApp
\* builds a new limiter and a listener is created.
STM_START(cfg, readable) ==
  /\ config' = validateConfig(cfg)
  /\ state' = handleStart(state, cfg)
  /\ IF server # NoServer
       THEN UNCHANGED <<server, requests, lastCleanup, solo, nosweep, seen, prev>>
       ELSE /\ server' = createServer(config', readable)
            /\ requests' = NewLimiter.requests
            /\ lastCleanup' = NewLimiter.lastCleanup
            /\ solo' = [c \in Clients |-> NewLimiter]
            /\ nosweep' = NewLimiter
            /\ seen' = [c \in Clients |-> 0]
            /\ prev' = NoDecision
  /\ req' = [kind |-> "socket", n |-> "STM_START", cfg |-> cfg,
             readable |-> readable]
  /\ res' = NoResponse
  /\ sent' = <<>>
  /\ HelperTakes
  /\ UNCHANGED <<version, now, call>>

\* Mutant of STM_EMBEDDED_STOPPED: the report is answered with a stop
\* command.
STM_EMBEDDED_STOPPED_Echo(reason) ==
  /\ state' = [state EXCEPT !.playing = FALSE]
  /\ req' = [kind |-> "socket", n |-> "STM_EMBEDDED_STOPPED", reason |-> reason]
  /\ res' = NoResponse
  /\ sent' = <<Notification("STM_STOP_EMBED", [reason |-> reason])>>
  /\ HelperTakes
  /\ UNCHANGED <<version, now, requests, lastCleanup, config, server,
                 solo, nosweep, seen, prev, call>>

\* socketNotificationReceived("STM_EMBEDDED_STOPPED", {reason})
STM_EMBEDDED_STOPPED(reason) ==
  /\ state' = [state EXCEPT !.playing = FALSE]
  /\ req' = [kind |-> "socket", n |-> "STM_EMBEDDED_STOPPED", reason |-> reason]
  /\ res' = NoResponse
  /\ sent' = <<>>
  /\ HelperTakes
  /\ UNCHANGED <<version, now, requests, lastCleanup, config, server,
                 solo, nosweep, seen, prev, call>>

\* stop(): closes the server and forgets it.
HelperStop ==
  /\ server # NoServer
  /\ server' = NoServer
  /\ req' = [kind |-> "stop"]
  /\ res' = NoResponse
  /\ sent' = <<>>
  /\ HelperStep
  /\ UNCHANGED <<version, now, requests, lastCleanup, state, config,
                 solo, nosweep, seen, prev, call>>

(***************************************************************************)
(* One HTTP request: the limiter, then the route.  solo, nosweep, seen and *)
(* prev are history variables: solo[c] is a limiter that sees only the     *)
(* requests of c, nosweep is the limiter without its sweep, seen[c] counts *)
(* the requests of c since its window began (counting stops above max),    *)
(* prev[c] is the decision c got last.  res also records what the request  *)
(* found: the decision c got before (before) and whether a video was       *)
(* playing (was).  A request is recorded as r: its route together with    *)
(* the fields of its body and query.                                       *)
(***************************************************************************)
Min(a, b) == IF a < b THEN a ELSE b

\* The body of a request that carries none.
NoBody == <<>>

Request(c, route, body) ==
  /\ server # NoServer
  /\ Len(down) < MaxInFlight
  /\ \E r \in {[route |-> route] @@ body} :
     \E a \in {Admit([requests |-> requests, lastCleanup |-> lastCleanup],
                      ClientId(c), now, version)} :
     \E out \in {Dispatch(a, state, r, version)} :
     \E sa \in {Admit(solo[c], ClientId(c), now, version)} :
     \E na \in {Admit(nosweep, ClientId(c), now, "never")} :
       LET fresh == c \notin DOMAIN requests \/ now - requests[c].resetTime > windowMs
       IN  /\ requests' = a.lim.requests
           /\ lastCleanup' = a.lim.lastCleanup
           /\ state' = out.state
           /\ sent' = out.sent
           /\ req' = [kind |-> "http", client |-> c, r |-> r]
           /\ res' = [status |-> out.status, body |-> out.body, allow |-> a.allow,
                      swept |-> SweepRuns([requests |-> requests,
                                           lastCleanup |-> lastCleanup],
                                          now, version),
                      soloAllow |-> sa.allow, nosweepAllow |-> na.allow,
                      before |-> prev[c],
                      was |-> [playing |-> state.playing,
                               lastVideoId |-> state.lastVideoId,
                               caption |-> state.caption,
                               quality |-> state.quality]]
           /\ solo' = [solo EXCEPT ![c] = sa.lim]
           /\ nosweep' = na.lim
           /\ seen' = [seen EXCEPT ![c] = IF fresh THEN 1 ELSE Min(@ + 1, max + 1)]
           /\ prev' = [prev EXCEPT ![c] = IF a.allow THEN "Allow" ELSE "Reject"]
           /\ call' = IF out.status = Pending
                        THEN fetchYouTubeVideoInfo(r.videoId, c)
                        ELSE call
  /\ HelperStep
  /\ UNCHANGED <<version, now, config, server>>

\* The security middleware of part_001 answers an OPTIONS request to an
\* API path with 204 before the limiter is reached.
HttpPreflight(c) ==
  /\ server # NoServer
  /\ version = "1.7.0"
  /\ req' = [kind |-> "preflight", client |-> c]
  /\ res' = [status |-> 204]
  /\ sent' = <<>>
  /\ HelperStep
  /\ UNCHANGED <<version, now, requests, lastCleanup, state, config, server,
                 solo, nosweep, seen, prev, call>>

\* The request the resolve call awaits ends: the promise of the method
\* settles, the loop takes its next turn, and when the call is over the
\* route answers.
VideoInfoSettles(ending) ==
  /\ call.pc = "pending"
  /\ call.open
  /\ LET promise == Method(call.idx, call.videoId, ending)
         c == [call EXCEPT !.open = FALSE,
                           !.tried = Append(@, Tried(Sources[call.idx], ending))]
     IN  /\ call' = IF promise.settled THEN LoopStep(c, promise, config) ELSE c
         /\ res' = IF call'.pc = "pending" THEN NoResponse
                   ELSE VideoInfoResponse(call')
  /\ req' = [kind |-> "settle", client |-> call.client, ending |-> ending]
  /\ sent' = <<>>
  /\ HelperStep
  /\ UNCHANGED <<version, now, requests, lastCleanup, state, config, server,
                 solo, nosweep, seen, prev>>

PlayUrls ==
  {Undef, Num(7), Str(NotAUrl), Str(UrlTooShort), Str(UrlWatchA), Str(PaddedIdB)}

ShareFields ==
  {<<Undef, Undef, Undef, Undef, Undef, Undef>>,
   <<Undef, Str(UrlWatchA), Undef, Undef, Undef, Undef>>,
   <<Str(NotAUrl), Str(UrlWatchA), Undef, Undef, Undef, Undef>>,
   <<Str(<<>>), Str(<<>>), Str(<<>>), Undef, Undef, Str(PaddedIdB)>>,
   <<Undef, Undef, Undef, Str(NotAUrl), Undef, Str(UrlWatchA)>>}

ControlBodies ==
  {[action |-> Str(Jump), seconds |-> Undef],
   [action |-> Str(Pause), seconds |-> Undef],
   [action |-> Str(Rewind), seconds |-> Num(10)]}

OptionsBodies ==
  {[caption |-> Undef, quality |-> Undef],
   [caption |-> Obj([enabled |-> Bool(TRUE), lang |-> Undef]), quality |-> Undef],
   [caption |-> Str(Fr),
    quality |-> Obj([target |-> Str(P1080), floor |-> Undef, ceiling |-> Undef,
                     lock |-> Undef])]}

OverlayActions == {Undef, Str(Fullscreen)}

StopReasons == {Str(Ended), Str(Escape)}

\* The bodies of the requests: {url}, the six fields /share-target reads,
\* {action}, {videoId}.
PlayBodies == {[url |-> url] : url \in PlayUrls}

ShareBodies == {[fields |-> fields] : fields \in ShareFields}

OverlayBodies == {[action |-> action] : action \in OverlayActions}

HttpPlay(c, body) == Request(c, "play", body)

HttpShareTarget(c, body) == Request(c, "share-target", body)

HttpStop(c) == Request(c, "stop", NoBody)

HttpControl(c, body) == Request(c, "control", body)

HttpOptions(c, body) == Request(c, "options", body)

HttpOverlay(c, body) == Request(c, "overlay", body)

HttpStatus(c) == Request(c, "status", NoBody)

HttpHealth(c) == Request(c, "health", NoBody)

\* The ids POST /api/video-info is called with.
VideoIds == {Undef, Str(ShortToken), Str(IdA), Str(IdB)}

\* One resolve call at a time.
VideoInfoBodies == {[videoId |-> videoId] : videoId \in VideoIds}

HttpVideoInfo(c, body) ==
  /\ call.pc # "pending"
  /\ Request(c, "video-info", body)

\* The whole helper: one client address, a coarse clock.
Next ==
  \/ Tick(CoarseOffsets)
  \/ \E cfg \in {DefaultConfig, CustomConfig} : STM_START(cfg, TRUE)
  \/ \E reason \in StopReasons : STM_EMBEDDED_STOPPED(reason)
  \/ \E body \in PlayBodies : HttpPlay("ipA", body)
  \/ \E body \in ShareBodies : HttpShareTarget("ipA", body)
  \/ HttpStop("ipA")
  \/ \E body \in ControlBodies : HttpControl("ipA", body)
  \/ \E body \in OptionsBodies : HttpOptions("ipA", body)
  \/ \E body \in OverlayBodies : HttpOverlay("ipA", body)
  \/ HttpStatus("ipA")
  \/ HttpPreflight("ipA")

Spec == Init /\ [][Next]_vars

\* The limiter under load: every client address, a fine clock, and the
\* requests that do not depend on a body.
NextLimiter ==
  \/ Tick(FineOffsets)
  \/ STM_START(DefaultConfig, TRUE)
  \/ \E c \in Clients : HttpStop(c)
  \/ \E c \in Clients : HttpStatus(c)

SpecLimiter == Init /\ [][NextLimiter]_vars

\* The life cycle of the server: every configuration, start and stop.
NextServer ==
  \/ Tick(CoarseOffsets)
  \/ \E cfg \in Configs, readable \in BOOLEAN : STM_START(cfg, readable)
  \/ HelperStop
  \/ \E c \in Clients : HttpHealth(c)

SpecServer == Init /\ [][NextServer]_vars

\* The actions and the seconds POST /api/control is called with.
ControlActions ==
  {Undef, Str(Jump), Str(Pause), Str(Resume), Str(Rewind), Str(Forward)}

ControlSeconds == {Undef, Num(-5), Num(0), Num(10), Num(30)}

ControlRequests ==
  {[action |-> action, seconds |-> seconds] :
     action \in ControlActions, seconds \in ControlSeconds}

WatchA == [url |-> Str(UrlWatchA)]

\* The player controls: a video is started and stopped, and every
\* combination of action and seconds is sent.
NextControl ==
  \/ Tick(CoarseOffsets)
  \/ STM_START(DefaultConfig, TRUE)
  \/ HttpPlay("ipA", WatchA)
  \/ HttpStop("ipA")
  \/ \E body \in ControlRequests : HttpControl("ipA", body)

SpecControl == Init /\ [][NextControl]_vars

\* The caption and quality values POST /api/options is called with: none,
\* a patch of one field, the default values in full, and a string.
CaptionPatches ==
  {Undef, Obj([enabled |-> Bool(TRUE), lang |-> Undef]),
   Obj([enabled |-> Bool(FALSE), lang |-> Str(En)]), Str(Fr)}

QualityPatches ==
  {Undef,
   Obj([target |-> Str(P1080), floor |-> Undef, ceiling |-> Undef, lock |-> Undef]),
   Obj([target |-> Str(Auto), floor |-> Null, ceiling |-> Null, lock |-> Bool(FALSE)])}

OptionsPatches ==
  {[caption |-> caption, quality |-> quality] :
     caption \in CaptionPatches, quality \in QualityPatches}

\* The playback options: the helper is started with the default or the
\* locked configuration and is sent every combination of patches.
NextOptions ==
  \/ Tick(CoarseOffsets)
  \/ \E cfg \in {DefaultConfig, LockedConfig} : STM_START(cfg, TRUE)
  \/ \E body \in OptionsPatches : HttpOptions("ipA", body)
  \/ HttpStatus("ipA")

SpecOptions == Init /\ [][NextOptions]_vars

\* The metadata resolver: video-info requests, every ending of every
\* request, and an API key that comes and goes with STM_START.
NextResolver ==
  \/ Tick(CoarseOffsets)
  \/ \E cfg \in {DefaultConfig, KeyConfig} : STM_START(cfg, TRUE)
  \/ \E body \in VideoInfoBodies : HttpVideoInfo("ipA", body)
  \/ \E ending \in Endings : VideoInfoSettles(ending)

SpecResolver == Init /\ [][NextResolver]_vars

\* Every request the resolver makes ends: with its answer, with an error,
\* or when its timer fires.
SpecResolverFair ==
  SpecResolver /\ WF_vars(\E ending \in Endings : VideoInfoSettles(ending))

(***************************************************************************)
(* The two parsers on their own: a call of the function starts with its    *)
(* argument and ends with its result.  The arguments are built from parts, *)
(* which the call keeps.                                                   *)
(***************************************************************************)
UpperMarkWatch == <<"Y", "O", "U", "T", "U", "B", "E", ".", "C", "O", "M", "/", "W", "A", "T", "C", "H", "?", "V", "=">>

\* Prefixes that are none of the five patterns.
MarkVimeo == <<"v", "i", "m", "e", "o", ".", "c", "o", "m", "/">>

MarkFeature == <<"y", "o", "u", "t", "u", "b", "e", ".", "c", "o", "m", "/", "w", "a", "t", "c", "h", "?", "f", "=", "1", "&", "v", "=">>

\* An 11-character token with a character outside the alphabet.
BadToken == <<"d", "Q", "w", "4", "w", "9", "W", "!", "X", "c", "Q">>

IdMarkers == {MarkWatch, MarkEmbed, MarkV, MarkShorts, MarkShort, UpperMarkWatch}

\* What is put in front of the token: nothing (the bare form), one of the
\* five prefixes, or a prefix no pattern knows.
IdHeads ==
  {<<>>, Https} \cup {Https \o Www \o mk : mk \in IdMarkers \cup {MarkVimeo, MarkFeature}}
    \cup {mk : mk \in {MarkShort, MarkEmbed}}

IdTokens == {IdA, IdB, ShortToken, BadToken, <<>>}

\* What follows the token: nothing, a query parameter, one more character
\* of the alphabet.
IdRests == {<<>>, <<"&", "t", "=", "1", "0", "s">>, <<"Z">>}

IdPads == {<<>>, <<" ">>}

\* The arguments of parseYouTubeId: values that are no URL, and strings
\* built as pad, head, token, rest, pad.
IdInputs ==
  {[kind |-> "value", v |-> v] : v \in {Undef, Null, Num(7), Str(<<>>), Str(<<" ", "\n">>)}}
    \cup {[kind |-> "url", pad |-> pad, head |-> head, token |-> token, rest |-> rest] :
            pad \in IdPads, head \in IdHeads, token \in IdTokens, rest \in IdRests}

IdArgument(in) ==
  IF in.kind = "value" THEN in.v
  ELSE Str(in.pad \o in.head \o in.token \o in.rest \o in.pad)

InitParse ==
  /\ Constructed
  /\ call \in {[pc |-> "called", fn |-> "parseYouTubeId", in |-> in] : in \in IdInputs}

\* parseYouTubeId(input) returns.
ParseReturns ==
  /\ call.pc = "called"
  /\ call.fn = "parseYouTubeId"
  /\ call' = [call EXCEPT !.pc = "returned"] @@
               [out |-> parseYouTubeId(IdArgument(call.in))]
  /\ UNCHANGED <<version, now, requests, lastCleanup, state, config, server,
                 sent, req, res, solo, nosweep, seen, prev, mm, down, up>>

SpecParse == InitParse /\ [][ParseReturns]_vars

\* A component of a duration: its digits and the number they stand for.
Component(digits, n) == [digits |-> digits, n |-> n]

Absent == Component(<<>>, 0)

Hours == {Absent, Component(<<"0">>, 0), Component(<<"1">>, 1), Component(<<"1", "2">>, 12)}

Minutes == {Absent, Component(<<"2">>, 2), Component(<<"4">>, 4), Component(<<"9", "0">>, 90)}

Seconds == {Absent, Component(<<"0">>, 0), Component(<<"3">>, 3), Component(<<"1", "3">>, 13)}

\* Text around the token: none, a letter, a date part.
Junk == {<<>>, <<"x">>, <<"P", "1", "D">>}

\* Strings that are no PT token at all.
OtherDurations ==
  {<<"1", "H", "2", "M">>, <<"P", "1", "D", "T", "2", "H">>, <<"p", "t", "4", "m">>,
   <<"P", "T", "3", "S", "4", "M">>, <<"P", "T", "5", "X">>, <<"T", "4", "M">>}

\* The arguments of parseISO8601Duration: absent values, strings built as
\* junk PT hours H minutes M seconds S junk, and other strings.
DurationInputs ==
  {[kind |-> "value", v |-> v] : v \in {Undef, Null, Str(<<>>)}}
    \cup {[kind |-> "value", v |-> Str(text)] : text \in OtherDurations}
    \cup {[kind |-> "token", before |-> b, h |-> h, m |-> m, s |-> sec, after |-> a] :
            b \in Junk, h \in Hours, m \in Minutes, sec \in Seconds, a \in Junk}

Unit(component, letter) ==
  IF component = Absent THEN <<>> ELSE component.digits \o <<letter>>

DurationArgument(in) ==
  IF in.kind = "value" THEN in.v
  ELSE Str(in.before \o <<"P", "T">> \o Unit(in.h, "H") \o Unit(in.m, "M")
             \o Unit(in.s, "S") \o in.after)

InitDuration ==
  /\ Constructed
  /\ call \in {[pc |-> "called", fn |-> "parseISO8601Duration", in |-> in] :
                 in \in DurationInputs}

\* parseISO8601Duration(duration) returns.
DurationReturns ==
  /\ call.pc = "called"
  /\ call.fn = "parseISO8601Duration"
  /\ call' = [call EXCEPT !.pc = "returned"] @@
               [out |-> parseISO8601Duration(DurationArgument(call.in))]
  /\ UNCHANGED <<version, now, requests, lastCleanup, state, config, server,
                 sent, req, res, solo, nosweep, seen, prev, mm, down, up>>

SpecDuration == InitDuration /\ [][DurationReturns]_vars

\* Every entry point of the helper, with one or two inputs each.
VideoEnded == Str(Ended)

FewPlays == {[url |-> Str(NotAUrl)], WatchA}

FewShares ==
  {[fields |-> <<Undef, Str(UrlWatchA), Undef, Undef, Undef, Undef>>],
   [fields |-> <<Str(NotAUrl), Str(UrlWatchA), Undef, Undef, Undef, Undef>>]}

PauseBody == [action |-> Str(Pause), seconds |-> Undef]

CaptionOn ==
  [caption |-> Obj([enabled |-> Bool(TRUE), lang |-> Undef]), quality |-> Undef]

NoAction == [action |-> Undef]

FewVideoIds == {[videoId |-> Str(ShortToken)], [videoId |-> Str(IdA)]}

NextPlayback ==
  \/ Tick(CoarseOffsets)
  \/ \E cfg \in {DefaultConfig, KeyConfig} : STM_START(cfg, TRUE)
  \/ STM_EMBEDDED_STOPPED(VideoEnded)
  \/ \E body \in FewPlays : HttpPlay("ipA", body)
  \/ \E body \in FewShares : HttpShareTarget("ipA", body)
  \/ HttpStop("ipA")
  \/ HttpControl("ipA", PauseBody)
  \/ HttpOptions("ipA", CaptionOn)
  \/ HttpOverlay("ipA", NoAction)
  \/ HttpStatus("ipA")
  \/ HttpHealth("ipA")
  \/ \E body \in FewVideoIds : HttpVideoInfo("ipA", body)
  \/ \E ending \in {"title", "timeout"} : VideoInfoSettles(ending)
  \/ HttpPreflight("ipA")

SpecPlayback == Init /\ [][NextPlayback]_vars

(***************************************************************************)
(* Properties.                                                             *)
(***************************************************************************)
IsHttp == req.kind = "http"

\* The step just taken handled an HTTP request that reached the limiter.
HttpStep == req'.kind = "http"

\* C1: in every reachable state of the helper, playing = true implies
\* lastVideoId is not null.
C1_PlayingHasVideoId == state.playing => state.lastVideoId # Null

\* A video is playing when a notification of the display client arrives.
C1_Witness ==
  /\ state.playing
  /\ state.lastVideoId = Str(IdA)
  /\ req.kind = "socket"

\* C2: the stored count of a window never exceeds max and equals the
\* number of requests of the window up to max; a request is allowed exactly
\* when it is among the first max of its window, and is answered 429
\* otherwise.
C2_RateCap ==
  /\ \A c \in DOMAIN requests :
       /\ requests[c].count <= max
       /\ requests[c].count = Min(seen[c], max)
  /\ IsHttp => /\ res.allow <=> seen[req.client] <= max
               /\ ~res.allow <=> res.status = 429

\* The request after the first max of a window, made at the very end of
\* the window, is rejected.
C2_Witness ==
  /\ IsHttp
  /\ ~res.allow
  /\ seen[req.client] = max + 1
  /\ requests[req.client].count = max
  /\ now - requests[req.client].resetTime = windowMs

\* C3: a request of an identifier without a window, or with a window older
\* than windowMs, starts a window with count 1 at the current time and is
\* allowed; any other request leaves the start of the window where it was.
C3_WindowReset ==
  [][HttpStep =>
       LET c == req'.client
       IN  IF c \notin DOMAIN requests \/ now - requests[c].resetTime > windowMs
             THEN /\ requests'[c] = [count |-> 1, resetTime |-> now]
                  /\ res'.allow
             ELSE requests'[c].resetTime = requests[c].resetTime]_vars

\* A client that was rejected is admitted again with a fresh window.
C3_Witness ==
  /\ IsHttp
  /\ res.allow
  /\ res.before = "Reject"
  /\ requests[req.client] = [count |-> 1, resetTime |-> now]

\* C4: the retryAfter of a rejection is the least whole number of seconds
\* that covers the rest of the window; it lies between 0 and
\* ceil(windowMs / 1000).
C4_RetryAfter ==
  IsHttp /\ ~res.allow =>
    LET rest == windowMs - (now - requests[req.client].resetTime)
        ra == res.body.retryAfter
    IN  /\ ra \in Nat
        /\ ra * 1000 >= rest
        /\ (ra - 1) * 1000 < rest
        /\ ra <= (windowMs + 999) \div 1000

\* A rejection inside the window, with a part of a second left.
C4_Witness ==
  /\ IsHttp
  /\ ~res.allow
  /\ now - requests[req.client].resetTime = 1
  /\ res.body.retryAfter = (windowMs + 998) \div 1000

\* C5: a request the limiter rejects changes no field of PlaybackState and
\* sends nothing to the display client, and neither does a request answered
\* before the limiter.
C5_RejectedHasNoEffect ==
  [][/\ HttpStep /\ ~res'.allow =>
          /\ state' = state
          /\ sent' = <<>>
          /\ res'.status = 429
     /\ req'.kind = "preflight" => state' = state /\ sent' = <<>>]_vars

\* A rejected play request with a valid URL, while nothing is playing.
C5_Witness ==
  /\ IsHttp
  /\ ~res.allow
  /\ req.r.route = "play"
  /\ req.r.url = Str(UrlWatchA)
  /\ ~state.playing

\* C6: every request gets the decision it gets from a limiter that sees
\* only the requests of its own identifier, and a live window is the same
\* in both.
C6_IndependentWindows ==
  /\ IsHttp => res.allow = res.soloAllow
  /\ \A c \in DOMAIN requests \cap Clients :
       now - requests[c].resetTime <= windowMs =>
         /\ c \in DOMAIN solo[c].requests
         /\ solo[c].requests[c] = requests[c]

\* A request of ipB has swept the window of ipA, which ipA's own limiter
\* still holds.
C6_Witness ==
  /\ IsHttp
  /\ req.client = "ipB"
  /\ res.swept
  /\ "ipA" \notin DOMAIN requests
  /\ "ipA" \in DOMAIN solo["ipA"].requests

\* C7: the sweep removes only windows older than windowMs, every decision
\* equals that of the limiter without the sweep, and after a request that
\* swept no window older than windowMs is left.
C7_SweepIsInvisible ==
  [][/\ HttpStep =>
          /\ res'.allow = res'.nosweepAllow
          /\ res'.swept =>
               \A c \in DOMAIN requests' :
                 now' - requests'[c].resetTime <= windowMs
     /\ \A c \in DOMAIN requests \ DOMAIN requests' :
          now - requests[c].resetTime > windowMs]_vars

\* The 30 s sweep of the later version has removed a window the limiter
\* without sweep still holds.
C7_Witness ==
  /\ IsHttp
  /\ version = "1.7.0"
  /\ res.swept
  /\ now > StartTime
  /\ DOMAIN requests # DOMAIN nosweep.requests

\* The play requests that carry a video, with the ID each one names.
ValidPlays == {<<Str(UrlWatchA), Str(IdA)>>, <<Str(PaddedIdB), Str(IdB)>>}

\* The play requests that carry no video.
InvalidPlays == {Undef, Num(7), Str(NotAUrl), Str(UrlTooShort)}

\* C8: an admitted play request with a valid URL sets playing, records the
\* extracted ID and the submitted URL, sends exactly one STM_PLAY_EMBED
\* with that ID and answers ok with it, whether or not a video was playing.
C8_PlaySetsState ==
  [][\A p \in ValidPlays :
       HttpStep /\ res'.allow /\ req'.r.route = "play" /\ req'.r.url = p[1] =>
         /\ state' = [state EXCEPT !.playing = TRUE, !.lastVideoId = p[2],
                                   !.lastUrl = p[1]]
         /\ sent' = <<Notification("STM_PLAY_EMBED",
                                   [videoId |-> p[2], url |-> p[1]])>>
         /\ res'.status = 200
         /\ res'.body.ok
         /\ res'.body.videoId = p[2]]_vars

\* A play that replaced the video that was playing.
C8_Witness ==
  /\ IsHttp
  /\ req.r.route = "play"
  /\ res.status = 200
  /\ res.was.playing
  /\ res.was.lastVideoId = Str(IdA)
  /\ state.lastVideoId = Str(IdB)
  /\ state.lastUrl = Str(PaddedIdB)

\* C9: an admitted play request without a usable URL is answered 400,
\* changes no field of PlaybackState and sends nothing.
C9_InvalidPlayRejected ==
  [][HttpStep /\ res'.allow /\ req'.r.route = "play" /\ req'.r.url \in InvalidPlays =>
       /\ res'.status = 400
       /\ ~res'.body.ok
       /\ state' = state
       /\ sent' = <<>>]_vars

\* A refused play while a video is playing.
C9_Witness ==
  /\ IsHttp
  /\ req.r.route = "play"
  /\ res.status = 400
  /\ state.playing
  /\ state.lastVideoId = Str(IdA)

\* C10: an admitted stop request clears playing, sends one STM_STOP_EMBED
\* with a reason and changes nothing else; neither a stop request nor a
\* playback-stopped report changes lastVideoId.
C10_StopKeepsHistory ==
  [][/\ HttpStep /\ res'.allow /\ req'.r.route = "stop" =>
          /\ state' = [state EXCEPT !.playing = FALSE]
          /\ Len(sent') = 1
          /\ sent'[1].n = "STM_STOP_EMBED"
          /\ sent'[1].payload.reason = Str(Api)
     /\ req'.kind = "socket" /\ req'.n = "STM_EMBEDDED_STOPPED" =>
          /\ state' = [state EXCEPT !.playing = FALSE]
          /\ sent' = <<>>]_vars

\* A stop request that stopped a playing video and kept its ID.
C10_Witness ==
  /\ IsHttp
  /\ req.r.route = "stop"
  /\ res.allow
  /\ res.was.playing
  /\ ~state.playing
  /\ state.lastVideoId = Str(IdA)

\* The share-target requests whose first non-empty field names a video.
ValidShares ==
  {<<Undef, Str(UrlWatchA), Undef, Undef, Undef, Undef>>,
   <<Str(<<>>), Str(<<>>), Str(<<>>), Undef, Undef, Str(PaddedIdB)>>}

\* The step just taken was an admitted request to the given route.
Admitted(route) == HttpStep /\ res'.allow /\ req'.r.route = route

\* C11: playing goes from false to true only by an admitted play or
\* share-target request that names a video, and from true to false only by
\* an admitted stop request or a playback-stopped report; control, options,
\* overlay, status, video-info (the request and the resolve call behind
\* it), health and STM_START leave it as it is.
C11_PlayingStateMachine ==
  [][/\ ~state.playing /\ state'.playing =>
          \/ Admitted("play") /\ req'.r.url \in {p[1] : p \in ValidPlays}
          \/ Admitted("share-target") /\ req'.r.fields \in ValidShares
     /\ state.playing /\ ~state'.playing =>
          \/ Admitted("stop")
          \/ req'.kind = "socket" /\ req'.n = "STM_EMBEDDED_STOPPED"
     /\ \/ \E route \in {"control", "options", "overlay", "status",
                          "video-info", "health"} : HttpStep /\ req'.r.route = route
        \/ req'.kind = "settle"
        \/ req'.kind = "socket" /\ req'.n = "STM_START"
        => state'.playing = state.playing]_vars

\* A pause command was relayed while a video was playing, and it still is.
C11_Witness ==
  /\ IsHttp
  /\ res.allow
  /\ req.r.route = "control"
  /\ res.status = 200
  /\ res.was.playing
  /\ state.playing

\* C12: an admitted rewind or forward command without seconds is answered
\* like the same command with seconds = 10: 200, seconds 10 in the answer,
\* and one STM_VIDEO_CONTROL that carries 10 seconds.
C12_DefaultSeconds ==
  [][\A action \in {Str(Rewind), Str(Forward)} :
       Admitted("control") /\ req'.r.action = action /\ req'.r.seconds = Undef =>
         /\ res'.status = 200
         /\ res'.body = [ok |-> TRUE, action |-> action, seconds |-> Num(10)]
         /\ sent' = <<Notification("STM_VIDEO_CONTROL",
                                   [action |-> action, seconds |-> Num(10)])>>
         /\ state' = state]_vars

\* The control requests that must fail: no or an unknown action, or a
\* seek by zero or fewer seconds.
BadControl(r) ==
  \/ r.action \notin {Str(Pause), Str(Resume), Str(Rewind), Str(Forward)}
  \/ /\ r.action \in {Str(Rewind), Str(Forward)}
     /\ r.seconds \in {Num(-5), Num(0)}

\* C13: an admitted control request with an action outside pause, resume,
\* rewind, forward, or with rewind or forward and seconds that are zero or
\* negative, is answered 400, sends no command and leaves PlaybackState as
\* it is.
C13_BadControlRejected ==
  [][Admitted("control") /\ BadControl(req'.r) =>
       /\ res'.status = 400
       /\ ~res'.body.ok
       /\ sent' = <<>>
       /\ state' = state]_vars

\* The fields of a patch that the request supplies.
Supplied(patch) == {f \in DOMAIN patch.o : patch.o[f] # Undef}

\* The record after a partial merge of the patch: the supplied fields take
\* the values of the patch, the others keep theirs; a value that is no
\* object patches nothing.
Merged(old, patch) ==
  IF patch.t # "object" THEN old
  ELSE [f \in DOMAIN old |-> IF f \in Supplied(patch) THEN patch.o[f] ELSE old[f]]

\* C14: an admitted options request changes exactly the fields its patches
\* supply: the other fields of quality and of caption keep their values.
C14_PartialMerge ==
  [][Admitted("options") =>
       /\ state'.quality = Merged(state.quality, req'.r.quality)
       /\ state'.caption = Merged(state.caption, req'.r.caption)]_vars

\* C15 as stated: an admitted options request sends a command only if a
\* field of caption or quality changed its value.
C15_EmitsOnlyIfChanged ==
  [][Admitted("options") /\ sent' # <<>> =>
       state'.caption # state.caption \/ state'.quality # state.quality]_vars

\* C15, amended: an admitted options request sends one STM_OPTIONS exactly
\* when it carries a caption or a quality object, whether or not a value
\* changes; a request with neither sends nothing and changes nothing.
C15_EmitsIffPatched ==
  [][Admitted("options") =>
       LET patched == req'.r.caption.t = "object" \/ req'.r.quality.t = "object"
       IN  /\ patched => /\ Len(sent') = 1
                         /\ sent'[1].n = "STM_OPTIONS"
           /\ ~patched => sent' = <<>> /\ state' = state]_vars

\* A patch equal to the current values was sent on to the display client.
C15_Witness ==
  /\ IsHttp
  /\ res.allow
  /\ req.r.route = "options"
  /\ req.r.quality.t = "object"
  /\ state.caption = res.was.caption
  /\ state.quality = res.was.quality
  /\ Len(sent) = 1

\* The thumbnail of the synthetic record, for the two ids of the model.
SyntheticThumbnail(videoId) ==
  IF videoId = Str(IdA)
    THEN Str(<<"h", "t", "t", "p", "s", ":", "/", "/", "i", "m", "g", ".", "y", "o", "u", "t", "u", "b", "e", ".", "c", "o", "m", "/", "v", "i", "/", "d", "Q", "w", "4", "w", "9", "W", "g", "X", "c", "Q", "/", "m", "q", "d", "e", "f", "a", "u", "l", "t", ".", "j", "p", "g">>)
    ELSE Str(<<"h", "t", "t", "p", "s", ":", "/", "/", "i", "m", "g", ".", "y", "o", "u", "t", "u", "b", "e", ".", "c", "o", "m", "/", "v", "i", "/", "9", "b", "Z", "k", "p", "7", "q", "_", "-", "f", "0", "/", "m", "q", "d", "e", "f", "a", "u", "l", "t", ".", "j", "p", "g">>)

\* No method of the call has produced a title.
AllFailed(c) == \A i \in DOMAIN c.tried : c.tried[i].ending # "title"

\* C16: a resolve call never leaves fetchYouTubeVideoInfo by an exception,
\* so video-info is never answered 500; the record it returns has a
\* non-empty title, and when no source produced a title it is the synthetic
\* record: title "YouTube Video", the mqdefault thumbnail of the id, and
\* null duration, views and likes.
C16_ResolverAlwaysAnswers ==
  /\ call.pc # "thrown"
  /\ res.status # 500
  /\ call.pc = "done" =>
       /\ call.result.title.t = "string"
       /\ Len(call.result.title.s) > 0
       /\ res.status = 200 => res.body.ok /\ res.body.data = call.result
       /\ AllFailed(call) =>
            /\ Len(call.tried) = Len(Sources)
            /\ call.result = [title |-> Str(YouTubeVideo),
                              thumbnail |-> SyntheticThumbnail(call.videoId),
                              duration |-> Null, views |-> Null, likes |-> Null]

\* Without an API key, after an oEmbed timeout and a page without a title,
\* the call has returned the synthetic record and the route answered 200.
C16_Witness ==
  /\ call.pc = "done"
  /\ call.tried = <<Tried("oembed", "timeout"), Tried("api", "nokey"),
                    Tried("scrape", "notitle")>>
  /\ call.result.title = Str(YouTubeVideo)
  /\ req.kind = "settle"
  /\ res.status = 200

\* The place of a source in the order oEmbed, Data API, page.
Place(source) == CHOOSE k \in DOMAIN Sources : Sources[k] = source

\* C17: the requests of a call are made in the order oEmbed, Data API,
\* page, one at a time: a request is made only when every earlier method
\* has failed; without an API key the Data API counts as failed and no
\* request is made for it; and when a request ends with a title the call
\* returns that record and makes no further request.
C17_SourcesInOrder ==
  [][call'.pc \in {"pending", "done"} /\ call' # call =>
       LET c == call'
       IN  /\ \A i, j \in DOMAIN c.network :
                i < j => Place(c.network[i]) < Place(c.network[j])
           /\ \A i \in DOMAIN c.tried : c.tried[i].source = Sources[i]
           /\ \A i \in DOMAIN c.tried :
                (c.tried[i].ending = "nokey") = (Sources[i] \notin Range(c.network))
           /\ c.pc = "pending" =>
                /\ Len(c.tried) = c.idx - 1
                /\ AllFailed(c)
                /\ c.network[Len(c.network)] = Sources[c.idx]
           /\ req'.kind = "settle" /\ call.idx = 1 /\ c.pc = "pending" =>
                c.idx = IF config.youtubeApiKey = Undef THEN 3 ELSE 2
           /\ req'.kind = "settle" /\ req'.ending = "title" =>
                /\ c.pc = "done"
                /\ c.result.title = TitleOf(Sources[call.idx])
                /\ c.network = call.network]_vars

\* The Data API answered with a title after oEmbed had failed: the page
\* was never requested.
C17_Witness ==
  /\ call.pc = "done"
  /\ call.network = <<"oembed", "api">>
  /\ call.tried = <<Tried("oembed", "non200"), Tried("api", "title")>>
  /\ call.result.title = TitleOf("api")

Recognised(head) ==
  \E mk \in IdMarkers : head = mk \/ head = Https \o Www \o mk

\* What the claim expects for an argument of parseYouTubeId, from the parts
\* it is built of: behind a recognised prefix the token counts whatever
\* follows it, the bare form admits nothing but the token.
ExpectedId(in) ==
  IF in.kind = "value" THEN Null
  ELSE IF in.token \notin {IdA, IdB} THEN Null
  ELSE IF Recognised(in.head) THEN Str(in.token)
  ELSE IF in.head = <<>> /\ in.rest = <<>> THEN Str(in.token)
  ELSE Null

\* C19: parseYouTubeId returns the 11-character token of every argument
\* that is one of the six shapes (the token behind one of the five URL
\* prefixes, or the token alone) and null for every other argument: no
\* string, an empty string, a token that is too short or has a character
\* outside [A-Za-z0-9_-], no known prefix.  A result that is not null has
\* exactly 11 characters of that alphabet.
C19_ExtractsExactToken ==
  call.pc = "returned" /\ call.fn = "parseYouTubeId" =>
    /\ call.out = ExpectedId(call.in)
    /\ call.out # Null =>
         /\ Len(call.out.s) = 11
         /\ \A k \in 1..Len(call.out.s) : call.out.s[k] \in IdChars

\* The token was taken from a padded upper-case watch URL with a query
\* parameter behind it.
C19_Witness ==
  /\ call.pc = "returned"
  /\ call.fn = "parseYouTubeId"
  /\ call.in.kind = "url"
  /\ call.in.pad = <<" ">>
  /\ call.in.head = Https \o Www \o UpperMarkWatch
  /\ call.in.rest = <<"&", "t", "=", "1", "0", "s">>
  /\ call.out = Str(IdB)

\* A well-formed duration: PT and at least one component, nothing around.
WellFormed(in) ==
  /\ in.kind = "token"
  /\ in.before = <<>>
  /\ in.after = <<>>
  /\ <<in.h, in.m, in.s>> # <<Absent, Absent, Absent>>

\* C20: parseISO8601Duration returns hours * 3600 + minutes * 60 + seconds
\* for every well-formed PT#H#M#S token, absent components counting 0, and
\* null for every absent or malformed duration.
C20_DurationInSeconds ==
  call.pc = "returned" /\ call.fn = "parseISO8601Duration" =>
    call.out = IF WellFormed(call.in)
                 THEN Num(call.in.h.n * 3600 + call.in.m.n * 60 + call.in.s.n)
                 ELSE Null

(***************************************************************************)
(* The listener.                                                           *)
(***************************************************************************)
\* The step just taken was an STM_START notification.
StartStep == req'.kind = "socket" /\ req'.n = "STM_START"

\* The port the helper listens on for a configuration.
ListenPort(cfg) == IF cfg.port \in 1..MaxPort THEN cfg.port ELSE DefaultPort

\* C21: an STM_START that finds no server and asks for HTTPS with a key or
\* certificate that cannot be loaded, or with an empty key or certificate
\* path, leaves exactly one listener, a plain HTTP one on the configured
\* port; with an empty path HTTPS is switched off in the stored config.
C21_TlsFailureNotFatal ==
  [][StartStep /\ server = NoServer /\ req'.cfg.https.enabled =>
       LET https == req'.cfg.https
           nopath == https.keyPath = "" \/ https.certPath = ""
       IN  /\ server' # NoServer
           /\ server'.port = ListenPort(req'.cfg)
           /\ ~req'.readable \/ nopath => server'.scheme = "http"
           /\ nopath => ~config'.https.enabled]_vars

\* HTTPS was asked for with both paths, the files could not be read, and
\* the helper listens in plain HTTP.
C21_Witness ==
  /\ req.kind = "socket"
  /\ req.n = "STM_START"
  /\ req.cfg.https.enabled
  /\ req.cfg.https.keyPath # ""
  /\ req.cfg.https.certPath # ""
  /\ ~req.readable
  /\ config.https.enabled
  /\ server = [scheme |-> "http", port |-> DefaultPort]
  /\ seen = [c \in Clients |-> 0]

\* C28: the helper never holds a second server.  An STM_START that finds a
\* server keeps it and the application behind it (the limiter is not
\* rebuilt) and only merges the caption and quality of the config into
\* PlaybackState; a server is created only by an STM_START that finds
\* none, and given up only by stop().
C28_AtMostOneServer ==
  [][/\ StartStep /\ server # NoServer =>
          /\ server' = server
          /\ requests' = requests
          /\ lastCleanup' = lastCleanup
          /\ state' = [state EXCEPT !.caption = Assign(@, req'.cfg.caption),
                                    !.quality = Assign(@, req'.cfg.quality)]
     /\ server' # server /\ server' # NoServer => StartStep /\ server = NoServer
     /\ server' # server /\ server' = NoServer => req'.kind = "stop"]_vars

\* An STM_START with another configuration arrived after the server had
\* answered requests, and the server is the one that was there.
C28_Witness ==
  /\ req.kind = "socket"
  /\ req.n = "STM_START"
  /\ req.cfg.https.enabled
  /\ req.readable
  /\ server = [scheme |-> "http", port |-> DefaultPort]
  /\ seen["ipA"] > 0

\* The first of the six values that is a string of at least one character.
FirstNonEmpty(fields) ==
  LET filled == {i \in 1..6 : fields[i].t = "string" /\ fields[i].s # <<>>}
  IN  IF filled = {} THEN Undef
      ELSE fields[CHOOSE i \in filled : \A j \in filled : i <= j]

PadB == [url |-> Str(PaddedIdB)]

RacingPlays == {WatchA, PadB}

JustIdA == [videoId |-> Str(IdA)]

NextRace ==
  \/ Tick(CoarseOffsets)
  \/ STM_START(DefaultConfig, TRUE)
  \/ \E c \in Clients, body \in RacingPlays : HttpPlay(c, body)
  \/ \E c \in Clients : HttpStop(c)
  \/ HttpVideoInfo("ipA", JustIdA)
  \/ \E ending \in {"title", "timeout"} : VideoInfoSettles(ending)

SpecRace == Init /\ [][NextRace]_vars

\* lastVideoId and lastUrl as one value.
LastPlay(st) == <<st.lastUrl, st.lastVideoId>>

\* C23: whatever the order in which the play and stop requests of two
\* clients are handled, after each admitted play playing is true and
\* lastUrl and lastVideoId are the URL of that play and its ID, after each
\* admitted stop playing is false, and no other step (a stop, a tick, the
\* resolve call of a video-info request) changes lastUrl or lastVideoId:
\* the two always come from the play handled last.
C23_LastWriteWins ==
  [][/\ \A p \in ValidPlays : Admitted("play") /\ req'.r.url = p[1] =>
          state'.playing /\ LastPlay(state') = p
     /\ Admitted("stop") => ~state'.playing
     /\ ~Admitted("play") => LastPlay(state') = LastPlay(state)
     /\ LastPlay(state') \in ValidPlays \cup {<<Null, Null>>}]_vars

\* The other client's stop was handled between two plays, while a resolve
\* call was open: the state is that of the second play.
C23_Witness ==
  /\ IsHttp
  /\ req.r.route = "play"
  /\ req.client = "ipB"
  /\ res.allow
  /\ ~res.was.playing
  /\ res.was.lastVideoId = Str(IdA)
  /\ call.pc = "pending"
  /\ state.playing
  /\ LastPlay(state) = <<Str(PaddedIdB), Str(IdB)>>

(***************************************************************************)
(* The display client, MMM-ShareToMirror.js, in its two versions: 1.6.0    *)
(* (playVideo, stopVideo, updateOptions) and 1.7.4 (_playVideo,            *)
(* _stopVideo, overlay modes, MagicMover notifications).  mm is the module *)
(* object together with the page it runs in: the overlay element ("null"   *)
(* while there is none, else its display style), the YouTube IFrame API    *)
(* (yt: loaded; ready: the video the callback                              *)
(* window.onYouTubeIframeAPIReady would create a player for) and the       *)
(* player.  Two values record what has happened: balance, the number of    *)
(* MAGIC_MOVER_OFF sent minus the number of MAGIC_MOVER_ON sent, and       *)
(* unseen, a player was created while the overlay was not displayed.       *)
(* down and up are the socket between helper and client, in order.         *)
(***************************************************************************)
ModuleStopReason == <<"m", "o", "d", "u", "l", "e", "_", "s", "t", "o", "p">>

ErrorReason == <<"e", "r", "r", "o", "r">>

Windowed == <<"w", "i", "n", "d", "o", "w", "e", "d">>

\* this.ytPlayer = null
NoPlayer == [videoId |-> Null, running |-> FALSE]

validLangs ==
  {Str(En), Str(Fr), Str(<<"e", "s">>), Str(<<"d", "e">>), Str(<<"i", "t">>),
   Str(<<"p", "t">>), Str(<<"j", "a">>), Str(<<"k", "o">>), Str(<<"z", "h">>)}

validQualities ==
  {Str(Auto), Str(<<"1", "4", "4", "p">>), Str(<<"2", "4", "0", "p">>),
   Str(<<"3", "6", "0", "p">>), Str(<<"4", "8", "0", "p">>), Str(P720),
   Str(P1080), Str(<<"1", "4", "4", "0", "p">>), Str(<<"2", "1", "6", "0", "p">>)}

\* validateConfig / _validateConfig of the client: port, caption language
\* and quality target fall back to their defaults.
_validateConfig(cfg) ==
  [cfg EXCEPT
     !.port = IF @ < 1 \/ @ > MaxPort THEN DefaultPort ELSE @,
     !.caption.lang = IF @ \in validLangs THEN @ ELSE Str(En),
     !.quality.target = IF @ \in validQualities THEN @ ELSE Str(Auto)]

\* The module after start(): 1.6.0 has its overlay from setupOverlay,
\* 1.7.4 gets it with getDom.
Started(ver, cfg, mover, yt, balance, unseen) ==
  [version |-> ver, config |-> _validateConfig(cfg), mover |-> mover,
   overlay |-> IF ver = "1.6.0" THEN "none" ELSE "null",
   fsOn |-> FALSE, playing |-> FALSE, yt |-> yt, ready |-> Null,
   player |-> NoPlayer, stopped |-> FALSE, balance |-> balance,
   unseen |-> unseen]

\* What a handler of the client leaves behind: the module and the
\* notifications it has sent to the helper.
Done(m, msgs) == [mm |-> m, up |-> msgs]

\* createPlayer / _createPlayer: new YT.Player with autoplay.
_createPlayer(m, videoId) ==
  [m EXCEPT !.player = [videoId |-> videoId, running |-> TRUE],
            !.unseen = @ \/ m.overlay # "block"]

\* Mutant of _playVideo: MAGIC_MOVER_OFF is sent with every play.
_playVideo_AlwaysOff(m, videoId) ==
  IF ~Truthy(videoId) \/ m.overlay = "null" THEN m
  ELSE LET shown == [m EXCEPT !.fsOn = FALSE, !.overlay = "block"]
           made == IF m.yt THEN _createPlayer(shown, videoId)
                   ELSE [shown EXCEPT !.ready = videoId]
       IN  IF m.version = "1.6.0" THEN made
           ELSE [made EXCEPT !.balance = IF m.mover THEN @ + 1 ELSE @,
                             !.playing = TRUE]

\* playVideo / _playVideo
_playVideo(m, videoId) ==
  IF ~Truthy(videoId) \/ m.overlay = "null" THEN m
  ELSE LET shown == [m EXCEPT !.fsOn = FALSE, !.overlay = "block"]
           made == IF m.yt THEN _createPlayer(shown, videoId)
                   ELSE [shown EXCEPT !.ready = videoId]
       IN  IF m.version = "1.6.0" THEN made
           ELSE [made EXCEPT !.balance = IF m.mover /\ ~m.playing THEN @ + 1 ELSE @,
                             !.playing = TRUE]

\* Mutant of _stopVideo: the overlay mode is left as it is.
_stopVideo_KeepsMode(m, reason) ==
  LET hidden == [m EXCEPT !.player.running = FALSE,
                          !.overlay = IF @ = "null" THEN @ ELSE "none"]
      msgs == <<Notification("STM_EMBEDDED_STOPPED", [reason |-> reason])>>
  IN  IF m.version = "1.6.0" THEN Done(hidden, msgs)
      ELSE Done([hidden EXCEPT !.balance = IF m.mover /\ m.playing THEN @ - 1 ELSE @,
                               !.playing = FALSE],
                msgs)

\* stopVideo / _stopVideo
_stopVideo(m, reason) ==
  LET hidden == [m EXCEPT !.player.running = FALSE,
                          !.overlay = IF @ = "null" THEN @ ELSE "none",
                          !.fsOn = FALSE]
      msgs == <<Notification("STM_EMBEDDED_STOPPED", [reason |-> reason])>>
  IN  IF m.version = "1.6.0" THEN Done(hidden, msgs)
      ELSE Done([hidden EXCEPT !.balance = IF m.mover /\ m.playing THEN @ - 1 ELSE @,
                               !.playing = FALSE],
                msgs)

\* Mutant of updateOptions: the quality patch is not applied.
updateOptions_CaptionOnly(m, options) ==
  IF Truthy(options.caption)
    THEN [m EXCEPT !.config.caption = Assign(@, options.caption.o)]
    ELSE m

\* updateOptions, and the STM_OPTIONS case of 1.7.4.
updateOptions(m, options) ==
  LET c1 == IF Truthy(options.caption)
              THEN [m.config EXCEPT !.caption = Assign(@, options.caption.o)]
              ELSE m.config
      c2 == IF Truthy(options.quality)
              THEN [c1 EXCEPT !.quality = Assign(@, options.quality.o)]
              ELSE c1
  IN  [m EXCEPT !.config = c2]

_setOverlayFullscreen(m, on) == [m EXCEPT !.fsOn = on]

_toggleOverlayFullscreen(m) == _setOverlayFullscreen(m, ~m.fsOn)

\* socketNotificationReceived of the client.  STM_OVERLAY is a case of
\* 1.7.4 only: fullscreen, windowed, or toggle for anything else;
\* toLowerCase throws on a value that is no string.  STM_VIDEO_CONTROL
\* acts on the player alone.
moduleReceived(m, msg) ==
  CASE msg.n = "STM_PLAY_EMBED" -> Done(_playVideo(m, msg.payload.videoId), <<>>)
    [] msg.n = "STM_STOP_EMBED" -> _stopVideo(m, Or(msg.payload.reason, Str(Api)))
    [] msg.n = "STM_OPTIONS" -> Done(updateOptions(m, msg.payload), <<>>)
    [] msg.n = "STM_OVERLAY" /\ m.version = "1.7.4" ->
         LET action == Or(msg.payload.action, Str(Toggle))
             a == IF action.t = "string"
                    THEN [i \in DOMAIN action.s |-> ToLower(action.s[i])]
                    ELSE <<>>
         IN  Done(IF action.t # "string" THEN m
                  ELSE IF a = Fullscreen THEN _setOverlayFullscreen(m, TRUE)
                  ELSE IF a = Windowed THEN _setOverlayFullscreen(m, FALSE)
                  ELSE _toggleOverlayFullscreen(m),
                  <<>>)
    [] OTHER -> Done(m, <<>>)

\* stop() of the module: the video is stopped, overlay and player are
\* removed and the callback of the IFrame API is cleared.
moduleStop(m) ==
  LET r == _stopVideo(m, Str(ModuleStopReason))
  IN  Done([r.mm EXCEPT !.overlay = "null", !.player = NoPlayer,
                        !.ready = Null, !.stopped = TRUE],
           r.up)

\* A step of the client: the helper is not involved.
ModuleStep(r, what) ==
  /\ Len(up) + Len(r.up) <= MaxInFlight
  /\ mm' = r.mm
  /\ up' = up \o r.up
  /\ req' = [kind |-> "module", was |-> mm] @@ what
  /\ res' = NoResponse
  /\ sent' = <<>>
  /\ UNCHANGED <<version, now, requests, lastCleanup, state, config, server,
                 solo, nosweep, seen, prev, call>>

\* start() of a module that has not run: STM_START carries its config.
ModuleStart(ver, cfg, mover) ==
  /\ mm = NoModule
  /\ LET m == Started(ver, cfg, mover, FALSE, 0, FALSE)
     IN  ModuleStep(Done(m, <<Notification("STM_START", m.config)>>),
                    [n |-> "start"])
  /\ UNCHANGED down

\* start() after stop(): the config object is the one the options were
\* applied to, the page and its IFrame API are the same.
ModuleStartAgain ==
  /\ mm # NoModule
  /\ mm.stopped
  /\ LET m == Started(mm.version, mm.config, mm.mover, mm.yt, mm.balance,
                      mm.unseen)
     IN  ModuleStep(Done(m, <<Notification("STM_START", m.config)>>),
                    [n |-> "start"])
  /\ UNCHANGED down

\* getDom() of 1.7.4 creates the overlay element.
GetDom ==
  /\ mm # NoModule
  /\ mm.version = "1.7.4"
  /\ mm.overlay = "null"
  /\ ~mm.stopped
  /\ ModuleStep(Done([mm EXCEPT !.overlay = "none"], <<>>), [n |-> "getDom"])
  /\ UNCHANGED down

\* The script of the IFrame API has loaded and calls
\* window.onYouTubeIframeAPIReady if it is set.
ApiReady ==
  /\ mm # NoModule
  /\ ~mm.yt
  /\ LET loaded == [mm EXCEPT !.yt = TRUE, !.ready = Null]
     IN  ModuleStep(Done(IF mm.ready = Null THEN loaded
                         ELSE _createPlayer(loaded, mm.ready),
                         <<>>),
                    [n |-> "apiReady", pending |-> mm.ready])
  /\ UNCHANGED down

\* The client takes the next notification of the helper.
ModuleReceives ==
  /\ mm # NoModule
  /\ down # <<>>
  /\ ModuleStep(moduleReceived(mm, Head(down)),
                [n |-> "receive", msg |-> Head(down)])
  /\ down' = Tail(down)

\* onStateChange with data 0 (ended) and onError of a running player.
PlayerEvent(reason) ==
  /\ mm # NoModule
  /\ mm.player.running
  /\ ModuleStep(_stopVideo(mm, reason), [n |-> "event", reason |-> reason])
  /\ UNCHANGED down

\* The Escape key while the overlay is displayed.
KeyEscape ==
  /\ mm # NoModule
  /\ mm.overlay = "block"
  /\ ModuleStep(_stopVideo(mm, Str(Escape)), [n |-> "event", reason |-> Str(Escape)])
  /\ UNCHANGED down

\* stop() of the module.
ModuleStop ==
  /\ mm # NoModule
  /\ ~mm.stopped
  /\ ModuleStep(moduleStop(mm), [n |-> "stop"])
  /\ UNCHANGED down

\* The helper takes the next notification of the client; the key files
\* of the configuration are readable.
HelperReceives ==
  /\ mm # NoModule
  /\ up # <<>>
  /\ IF Head(up).n = "STM_START"
       THEN STM_START(Head(up).payload, TRUE)
       ELSE STM_EMBEDDED_STOPPED(Head(up).payload.reason)

ClientVersions == {"1.6.0", "1.7.4"}

EndedOrError == {Str(Ended), Str(ErrorReason)}

DisplayOverlays ==
  {[action |-> Undef], [action |-> Str(Fullscreen)], [action |-> Str(Windowed)]}

\* Overlay modes: one video, stop, the overlay commands, player events and
\* the Escape key, with the client in either version.  The clock stands
\* still, so the limiter admits max requests.
NextDisplay ==
  \/ \E ver \in ClientVersions : ModuleStart(ver, DefaultConfig, TRUE)
  \/ GetDom
  \/ ApiReady
  \/ ModuleReceives
  \/ HelperReceives
  \/ \E reason \in EndedOrError : PlayerEvent(reason)
  \/ KeyEscape
  \/ HttpPlay("ipA", WatchA)
  \/ HttpStop("ipA")
  \/ \E body \in DisplayOverlays : HttpOverlay("ipA", body)

SpecDisplay == Init /\ [][NextDisplay]_vars

\* The step just taken was a step of the client.
ModuleStepTaken == req'.kind = "module"

\* The client has taken the given notification of the helper.
Received(name) ==
  ModuleStepTaken /\ req'.n = "receive" /\ req'.msg.n = name

\* The client has processed a stop: STM_STOP_EMBED, the end of the video,
\* a player error, the Escape key or stop() of the module.
StopProcessed ==
  \/ Received("STM_STOP_EMBED")
  \/ ModuleStepTaken /\ req'.n \in {"event", "stop"}

\* Fullscreen mode is on and the overlay is not displayed.
HiddenFullscreen(m) == m # NoModule /\ m.fsOn /\ m.overlay # "block"

\* C22, as stated: in every state of the client fullscreen mode implies
\* that the overlay is displayed.
C22_FullscreenImpliesVisible == ~HiddenFullscreen(mm)

\* C22, amended: every stop the client processes leaves windowed mode,
\* every play that shows the overlay starts in windowed mode, and
\* fullscreen mode with the overlay hidden arises only from an STM_OVERLAY
\* notification taken while the overlay is hidden.
C22_AutoExitFullscreen ==
  [][/\ StopProcessed => ~mm'.fsOn /\ mm'.overlay # "block"
     /\ Received("STM_PLAY_EMBED") /\ mm'.overlay = "block" => ~mm'.fsOn
     /\ HiddenFullscreen(mm') /\ ~HiddenFullscreen(mm) =>
          Received("STM_OVERLAY") /\ mm.overlay # "block"]_vars

\* The Escape key has ended a video that was shown in fullscreen mode.
C22_Witness ==
  /\ req.kind = "module"
  /\ req.n = "event"
  /\ req.reason = Str(Escape)
  /\ req.was.fsOn
  /\ req.was.overlay = "block"
  /\ ~mm.fsOn
  /\ mm.overlay = "none"

\* Helper and client in step: play and stop requests, the end of the
\* video, player errors and the Escape key, every notification delivered
\* in order.  The helper gets STM_START once the overlay exists:
\* MagicMirror builds the DOM of its modules right after start().
NextSync ==
  \/ \E ver \in ClientVersions : ModuleStart(ver, DefaultConfig, TRUE)
  \/ GetDom
  \/ ApiReady
  \/ ModuleReceives
  \/ mm # NoModule /\ mm.overlay # "null" /\ HelperReceives
  \/ \E reason \in EndedOrError : PlayerEvent(reason)
  \/ KeyEscape
  \/ HttpPlay("ipA", WatchA)
  \/ HttpStop("ipA")

SpecSync == Init /\ [][NextSync]_vars

\* The server is up and no notification is on its way.
Quiescent == mm # NoModule /\ server # NoServer /\ down = <<>> /\ up = <<>>

\* C25: once every notification has been delivered, the helper's playing
\* says whether the client displays the overlay.
C25_AgreeAtQuiescence ==
  Quiescent => (state.playing <=> mm.overlay = "block")

\* C26: no player has been created while the overlay was not displayed; a
\* stop taken while a play waits for the IFrame API leaves nothing for the
\* API to start.
C26_PlayerOnlyWhileVisible == mm # NoModule => ~mm.unseen

\* The life of the module: start(), plays and stops in any number and
\* order, the end of the video, the Escape key, stop() and start() again,
\* with and without magicMoverIntegration.
NextLife ==
  \/ \E ver \in ClientVersions, mover \in BOOLEAN :
       ModuleStart(ver, DefaultConfig, mover)
  \/ GetDom
  \/ ApiReady
  \/ ModuleReceives
  \/ HelperReceives
  \/ PlayerEvent(VideoEnded)
  \/ KeyEscape
  \/ ModuleStop
  \/ ModuleStartAgain
  \/ HttpPlay("ipA", WatchA)
  \/ HttpStop("ipA")

SpecLife == Init /\ [][NextLife]_vars

\* C27: with magicMoverIntegration the client has sent one
\* MAGIC_MOVER_OFF more than MAGIC_MOVER_ON while _playing is true and as
\* many of each while it is false, so the two alternate, OFF first.
C27_MoverAlternates ==
  mm # NoModule /\ mm.mover => mm.balance = IF mm.playing THEN 1 ELSE 0

\* A second play has reached a client that was playing: no second OFF.
C27_Witness ==
  /\ req.kind = "module"
  /\ req.n = "receive"
  /\ req.msg.n = "STM_PLAY_EMBED"
  /\ req.was.mover
  /\ req.was.playing
  /\ req.was.balance = 1
  /\ mm.playing
  /\ mm.balance = 1

\* The socket delivers: the client takes what the helper has sent, the
\* helper what the client has sent, and MagicMirror asks the module for
\* its DOM.
SpecSyncFair ==
  /\ SpecSync
  /\ WF_vars(GetDom)
  /\ WF_vars(ModuleReceives)
  /\ WF_vars(mm # NoModule /\ mm.overlay # "null" /\ HelperReceives)

\* C30: an admitted stop request sends one STM_STOP_EMBED; the client
\* answers each STM_STOP_EMBED it takes with one STM_EMBEDDED_STOPPED,
\* whatever its state; the helper sends nothing when it takes that report;
\* and whenever notifications are on their way there comes a state where
\* none is.
C30_StopExchangeEnds ==
  /\ [][/\ Admitted("stop") =>
             /\ Len(sent') = 1
             /\ sent'[1].n = "STM_STOP_EMBED"
             /\ down' = down \o sent'
        /\ Received("STM_STOP_EMBED") =>
             /\ Len(up') = Len(up) + 1
             /\ up'[Len(up')].n = "STM_EMBEDDED_STOPPED"
        /\ req'.kind = "socket" /\ req'.n = "STM_EMBEDDED_STOPPED" =>
             /\ sent' = <<>>
             /\ down' = down
             /\ up' = Tail(up)]_vars
  /\ (down # <<>> \/ up # <<>>) ~> (down = <<>> /\ up = <<>>)

\* A stop command has reached a client that was showing nothing, and the
\* report is on its way.
C30_Witness ==
  /\ req.kind = "module"
  /\ req.n = "receive"
  /\ req.msg.n = "STM_STOP_EMBED"
  /\ req.was.overlay = "none"
  /\ ~req.was.player.running
  /\ down = <<>>
  /\ Len(up) = 1
  /\ up[1].n = "STM_EMBEDDED_STOPPED"

\* The options on both sides: the module is started once, with the
\* default or the locked configuration, and the helper is sent caption and
\* quality patches.
Quality1080 ==
  [caption |-> Undef,
   quality |-> Obj([target |-> Str(P1080), floor |-> Undef, ceiling |-> Undef,
                    lock |-> Undef])]

MirrorPatches == {CaptionOn, Quality1080}

MirrorConfigs == {DefaultConfig, LockedConfig}

NextMirror ==
  \/ \E ver \in ClientVersions, cfg \in MirrorConfigs : ModuleStart(ver, cfg, TRUE)
  \/ GetDom
  \/ ModuleReceives
  \/ HelperReceives
  \/ \E body \in MirrorPatches : HttpOptions("ipA", body)

SpecMirror == Init /\ [][NextMirror]_vars

\* C29: after the handshake, whatever options requests follow, once every
\* STM_OPTIONS has been delivered config.caption and config.quality of
\* the client equal caption and quality of PlaybackState, field for field.
C29_OptionsMirrored ==
  Quiescent => mm.config.caption = state.caption /\ mm.config.quality = state.quality

\* The client has applied a quality patch to the locked configuration:
\* both sides hold 1080p and have lost floor and lock.
C29_Witness ==
  /\ Quiescent
  /\ req.kind = "module"
  /\ req.n = "receive"
  /\ req.msg.n = "STM_OPTIONS"
  /\ req.was.config.quality.lock = Bool(TRUE)
  /\ mm.config.quality = [target |-> Str(P1080), floor |-> Null,
                          ceiling |-> Null, lock |-> Bool(FALSE)]
  /\ state.quality = mm.config.quality
  /\ state.caption = [enabled |-> Bool(TRUE), lang |-> Str(Fr)]

====
